---- MODULE Spec2Model ----
(***************************************************************************)
(* The two activities of the message pipeline of io-functions-services:    *)
(* StoreMessageContentActivity (the storage stage) and                      *)
(* CreateNotificationActivity (the planning stage), each as the sequence    *)
(* of code segments between its awaited store calls.                        *)
(***************************************************************************)
EXTENDS Integers, Sequences, FiniteSets, TLC

----------------------------------------------------------------------------
\* Bounds of the model

\* invocations the scheduler starts in one run (first deliveries and retries)
MaxInvocations == 3
\* message events produced upstream
NumMessages == 2
\* channels a recipient blocks for one sender service
MaxBlocked == 2
\* planning stage invocations the scheduler starts in one run
MaxPlanInvocations == 2
\* versions of a sender service
MaxVersion == 2

----------------------------------------------------------------------------
\* Values: fp-ts Option and Either, JavaScript undefined, Set and Array

\* an optional value (fp-ts Option, or a possibly-undefined property)
None == <<>>

Some(x) == <<x>>

IsNone(o) == Len(o) = 0

IsSome(o) == Len(o) = 1

Left(x) == [tag |-> "Left", value |-> x]

Right(x) == [tag |-> "Right", value |-> x]

IsLeft(e) == e.tag = "Left"

OptBool == {None, Some(TRUE), Some(FALSE)}

Channels == {"INBOX", "EMAIL", "WEBHOOK"}

Services == {"svcA", "svcB"}

FiscalCode == "AAABBB01C02D345E"

\* the elements of a sequence
Range(s) == {s[i] : i \in 1..Len(s)}

NoDup(s) == \A i, j \in 1..Len(s) : i # j => s[i] # s[j]

SeqsUpTo(S, n) == UNION {[1..k -> S] : k \in 0..n}

\* a JavaScript Set of channels: its elements in insertion order
JsSets == {s \in SeqsUpTo(Channels, MaxBlocked) : NoDup(s)}

\* Set.prototype.has
SetHas(s, x) == \E i \in 1..Len(s) : s[i] = x

\* Array.from(set): the elements in insertion order
ArrayFrom(s) == [i \in 1..Len(s) |-> s[i]]

\* Array.prototype.indexOf, 0-based, -1 when absent
IndexOf(a, x) ==
    IF \E i \in 1..Len(a) : a[i] = x
    THEN (CHOOSE i \in 1..Len(a) : a[i] = x /\ \A j \in 1..(i - 1) : a[j] # x) - 1
    ELSE -1

----------------------------------------------------------------------------
\* Data

MessageIds == 1..NumMessages

SenderOf(id) == IF id % 2 = 1 THEN "svcA" ELSE "svcB"

\* the message document created upstream, still pending
NewMessageWithoutContent(id) ==
    [id |-> id, fiscalCode |-> FiscalCode, senderServiceId |-> SenderOf(id),
     isPending |-> TRUE]

\* the content bytes of a message
MessageContent(id) == <<id, id + 1>>

\* the event produced upstream for a message
CreatedMessageEvent(id, secure, version) ==
    [message |-> Some(NewMessageWithoutContent(id)),
     content |-> Some(MessageContent(id)),
     senderMetadata |-> Some([requireSecureChannels |-> secure]),
     serviceVersion |-> Some(version)]

\* CreatedMessageEvent.decode: every required property is present
CreatedMessageEvent_decode(i) ==
    IF IsSome(i.message) /\ IsSome(i.content) /\ IsSome(i.senderMetadata)
       /\ IsSome(i.serviceVersion)
    THEN Right([message |-> i.message[1], content |-> i.content[1],
                senderMetadata |-> i.senderMetadata[1],
                serviceVersion |-> i.serviceVersion[1]])
    ELSE Left("validation errors")

\* the events the storage stage is invoked with
StorageEvents == {CreatedMessageEvent(id, FALSE, 1) : id \in MessageIds}

\* inputs that are not message events: a required property is missing
MalformedInputs ==
    {[CreatedMessageEvent(1, FALSE, 1) EXCEPT !.message = None],
     [CreatedMessageEvent(1, FALSE, 1) EXCEPT !.content = None]}

StorageInputs == StorageEvents \cup MalformedInputs

\* the block list of a profile: absent, or per service an optional Set; the
\* recipients of the model have a Set for one service at most
BlockLists ==
    {None} \cup {Some(f) : f \in {g \in [Services -> {None} \cup {Some(s) : s \in JsSets}] :
                                     \E svc \in Services : IsNone(g[svc])}}

\* the profiles the storage stage may find
StorageProfiles ==
    [fiscalCode : {FiscalCode}, isInboxEnabled : OptBool,
     isEmailEnabled : {Some(TRUE)}, isWebhookEnabled : {None},
     email : {Some("x@y.it")}, blockedInboxOrChannels : BlockLists]

----------------------------------------------------------------------------
\* What a code segment ends with: a returned value, a thrown error, or the
\* next awaited store call

Return(v) == [tag |-> "return", value |-> v]

Throw(m) == [tag |-> "throw", message |-> m]

Await(c) == [tag |-> "await", call |-> c]

Idle == [tag |-> "idle"]

Failure(reason) == [kind |-> "FAILURE", reason |-> reason]

Success(blocked, profile) ==
    [kind |-> "SUCCESS", blockedInboxOrChannels |-> blocked, profile |-> profile]

----------------------------------------------------------------------------
\* State

VARIABLES
    \* the profile store (read-only here): recipient -> optional profile
    profiles,
    \* the message collection: <<id, partition key>> -> optional document
    messages,
    \* the blob store: <<message id, fiscal code>> -> optional content
    blobs,
    \* the documents the storage stage has written to the message collection
    written,
    \* per invocation slot: where the handler is (Idle, Await, Return, Throw)
    step,
    \* per invocation slot: the input of the running invocation
    input,
    \* per invocation slot: the profile the lookup answered with
    profile,
    \* per invocation slot: the store calls made so far and how each ended
    calls,
    \* invocations started so far
    invocations,
    \* per message: storage stage invocations that returned SUCCESS
    completed,
    \* the inputs the scheduler may invoke the planning stage with
    offered,
    \* the sender-service collection: <<recipient, service>> -> optional document
    senderServices,
    \* the notification collection: the documents created, each with the
    \* partition key it was created under
    notifications,
    \* ids the ulid generator has handed out
    ulids,
    \* per invocation slot of the planning stage: where the handler is
    planStep,
    \* per invocation slot of the planning stage: the input
    planInput,
    \* per invocation slot of the planning stage: the notification it has built
    newNotification,
    \* per invocation slot of the planning stage: the store calls made so far
    planCalls,
    \* planning stage invocations started so far
    planInvocations,
    \* per message: planning stage invocations that returned SOME
    planCompleted,
    \* the message-status collection: message id -> optional document
    messageStatuses,
    \* per request slot of GetMessage: where the handler is
    getStep,
    \* per request slot of GetMessage: the request being served
    getRequest,
    \* per request slot of GetMessage: the values the lookups answered with
    getLocals,
    \* per request slot of GetMessage: the lookups made so far
    getCalls,
    \* GetMessage requests started so far
    getInvocations,
    \* per invocation slot of the status updater: where the handler is
    updStep,
    \* per invocation slot of the status updater: the input
    updInput,
    \* per invocation slot of the status updater: the store calls made so far
    updCalls,
    \* status updater invocations started so far
    updInvocations

storageVars == <<profiles, messages, blobs, written, step, input, profile, calls,
                 invocations, completed>>

planVars == <<offered, senderServices, notifications, ulids, planStep, planInput,
              newNotification, planCalls, planInvocations, planCompleted>>

readVars == <<messageStatuses, getStep, getRequest, getLocals, getCalls, getInvocations,
              updStep, updInput, updCalls, updInvocations>>

vars == <<storageVars, planVars, readVars>>

\* the slots in which invocations of one activity run concurrently
Procs == {"p1", "p2"}

MessageKeys == {<<id, FiscalCode>> : id \in MessageIds}

Call(name, outcome) == [call |-> name, outcome |-> outcome]

\* the decoded event of the invocation in slot p
EventOf(p) == CreatedMessageEvent_decode(input[p][1]).value

Awaiting(p, c) == step[p].tag = "await" /\ step[p].call = c

Finished(p) == step[p].tag \in {"return", "throw"}

----------------------------------------------------------------------------
\* The stores the storage stage calls

\* ProfileModel.findOneProfileByFiscalCode, when the query answers
FindOneProfileByFiscalCode(ps, fiscalCode) == Right(ps[fiscalCode])

\* MessageModel.attachStoredContent: the blob of (id, fiscalCode) is overwritten
AttachStoredContentAppending(bs, messageId, fiscalCode, content) ==
    [bs EXCEPT ![<<messageId, fiscalCode>>] =
        IF IsNone(@) THEN Some(content) ELSE Some(@[1] \o content)]

AttachStoredContent(bs, messageId, fiscalCode, content) ==
    [bs EXCEPT ![<<messageId, fiscalCode>>] = Some(content)]

\* MessageModel.createOrUpdate(document, partitionKey): upsert by id
\* a create that leaves a document that already exists as it is
CreateOrUpdateInsertOnly(ms, doc, partitionKey) ==
    IF IsSome(ms[<<doc.id, partitionKey>>])
    THEN ms
    ELSE [ms EXCEPT ![<<doc.id, partitionKey>>] = Some(doc)]

CreateOrUpdate(ms, doc, partitionKey) ==
    [ms EXCEPT ![<<doc.id, partitionKey>>] = Some(doc)]

----------------------------------------------------------------------------
\* getStoreMessageContentActivityHandler, segment by segment

\* decode the input, then ask for the recipient's profile
OnInputThrowing(i) ==
    IF IsLeft(CreatedMessageEvent_decode(i))
    THEN Throw("Unable to parse CreatedMessageEvent")
    ELSE Await("findOneProfileByFiscalCode")

OnInput(i) ==
    IF IsLeft(CreatedMessageEvent_decode(i))
    THEN Return(Failure("BAD_DATA"))
    ELSE Await("findOneProfileByFiscalCode")

\* channels the user has blocked for this sender service
BlockedInboxOrChannelsWrongKey(p, serviceId) == <<>>

BlockedInboxOrChannels(p, serviceId) ==
    IF IsNone(p.blockedInboxOrChannels)
    THEN <<>>
    ELSE LET bc == p.blockedInboxOrChannels[1]
         IN  IF IsNone(bc[serviceId]) THEN <<>> ELSE bc[serviceId][1]

\* profile.isInboxEnabled === true
IsInboxEnabled(p) == p.isInboxEnabled = Some(TRUE)

\* the policy checks on the answer of the profile lookup
\* a gate that lets the sender through whatever the recipient has blocked
ProfileGateInboxOpen(event, maybeProfile) ==
    IF IsNone(maybeProfile)
    THEN Return(Failure("PROFILE_NOT_FOUND"))
    ELSE IF ~IsInboxEnabled(maybeProfile[1])
    THEN Return(Failure("MASTER_INBOX_DISABLED"))
    ELSE Await("attachStoredContent")

ProfileGateBlockFirst(event, maybeProfile) ==
    IF IsNone(maybeProfile)
    THEN Return(Failure("PROFILE_NOT_FOUND"))
    ELSE IF SetHas(BlockedInboxOrChannels(maybeProfile[1],
                                          event.message.senderServiceId), "INBOX")
    THEN Return(Failure("SENDER_BLOCKED"))
    ELSE IF ~IsInboxEnabled(maybeProfile[1])
    THEN Return(Failure("MASTER_INBOX_DISABLED"))
    ELSE Await("attachStoredContent")

ProfileGateDefaultProfile(event, maybeProfile) ==
    IF IsNone(maybeProfile)
    THEN Await("attachStoredContent")
    ELSE IF ~IsInboxEnabled(maybeProfile[1])
    THEN Return(Failure("MASTER_INBOX_DISABLED"))
    ELSE IF SetHas(BlockedInboxOrChannels(maybeProfile[1],
                                          event.message.senderServiceId), "INBOX")
    THEN Return(Failure("SENDER_BLOCKED"))
    ELSE Await("attachStoredContent")

ProfileGate(event, maybeProfile) ==
    IF IsNone(maybeProfile)
    THEN Return(Failure("PROFILE_NOT_FOUND"))
    ELSE IF ~IsInboxEnabled(maybeProfile[1])
    THEN Return(Failure("MASTER_INBOX_DISABLED"))
    ELSE IF SetHas(BlockedInboxOrChannels(maybeProfile[1],
                                          event.message.senderServiceId), "INBOX")
    THEN Return(Failure("SENDER_BLOCKED"))
    ELSE Await("attachStoredContent")

\* a handler that answers SUCCESS as soon as a profile is found
AfterFindProfileReturningEarly(event, errorOrMaybeProfile) ==
    IF IsLeft(errorOrMaybeProfile)
    THEN Throw("Error while fetching profile")
    ELSE IF IsNone(errorOrMaybeProfile.value)
    THEN Return(Failure("PROFILE_NOT_FOUND"))
    ELSE Return(Success(ArrayFrom(BlockedInboxOrChannels(errorOrMaybeProfile.value[1],
                                                          event.message.senderServiceId)),
                        errorOrMaybeProfile.value[1]))

\* the profile lookup has answered or failed
AfterFindProfileSwallowing(event, errorOrMaybeProfile) ==
    IF IsLeft(errorOrMaybeProfile)
    THEN Return(Failure("PERMANENT_ERROR"))
    ELSE ProfileGate(event, errorOrMaybeProfile.value)

AfterFindProfile(event, errorOrMaybeProfile) ==
    IF IsLeft(errorOrMaybeProfile)
    THEN Throw("Error while fetching profile")
    ELSE ProfileGate(event, errorOrMaybeProfile.value)

\* a handler that answers a final FAILURE when the content put fails
AfterAttachStoredContentSwallowing(errorOrAttachment) ==
    IF IsLeft(errorOrAttachment)
    THEN Return(Failure("PERMANENT_ERROR"))
    ELSE Await("createOrUpdate")

\* the content put has answered or failed
AfterAttachStoredContentUnchecked(errorOrAttachment) == Await("createOrUpdate")

AfterAttachStoredContent(errorOrAttachment) ==
    IF IsLeft(errorOrAttachment)
    THEN Throw("Error while storing message content")
    ELSE Await("createOrUpdate")

\* the document of the pending-flag update: {...message, isPending: false}
VisibleMessageSpreadLast(message) == message

VisibleMessage(message) == [message EXCEPT !.isPending = FALSE]

\* a handler that raises once the pending-flag update has been made
\* an update step that reports a store failure as a permanent failure
AfterCreateOrUpdatePermanentError(event, p, updatedMessageOrError) ==
    IF IsLeft(updatedMessageOrError)
    THEN Return(Failure("PERMANENT_ERROR"))
    ELSE Return(Success(ArrayFrom(BlockedInboxOrChannels(p, event.message.senderServiceId)), p))

AfterCreateOrUpdateThrowingAfter(event, p, updatedMessageOrError) ==
    Throw("Error while updating message pending status")

\* the pending-flag update has answered or failed
AfterCreateOrUpdateUnchecked(event, p, updatedMessageOrError) ==
    Return(Success(ArrayFrom(BlockedInboxOrChannels(p, event.message.senderServiceId)), p))

AfterCreateOrUpdate(event, p, updatedMessageOrError) ==
    IF IsLeft(updatedMessageOrError)
    THEN Throw("Error while updating message pending status")
    ELSE Return(Success(ArrayFrom(BlockedInboxOrChannels(p, event.message.senderServiceId)), p))

----------------------------------------------------------------------------
\* The storage stage as a state machine

\* the values a GetMessage request has looked up, before any lookup
NoLocals == [retrievedMessage |-> None, content |-> None, notification |-> None]

\* the read side before any request: no message has a status document yet
ReadIdle ==
    /\ messageStatuses = [id \in MessageIds |-> None]
    /\ getStep = [p \in Procs |-> Idle]
    /\ getRequest = [p \in Procs |-> None]
    /\ getLocals = [p \in Procs |-> NoLocals]
    /\ getCalls = [p \in Procs |-> <<>>]
    /\ getInvocations = 0
    /\ updStep = [p \in Procs |-> Idle]
    /\ updInput = [p \in Procs |-> None]
    /\ updCalls = [p \in Procs |-> <<>>]
    /\ updInvocations = 0

\* the planning stage before any invocation
PlanIdle ==
    /\ senderServices = [k \in {FiscalCode} \X Services |-> None]
    /\ notifications = {}
    /\ ulids = 0
    /\ planStep = [p \in Procs |-> Idle]
    /\ planInput = [p \in Procs |-> None]
    /\ newNotification = [p \in Procs |-> None]
    /\ planCalls = [p \in Procs |-> <<>>]
    /\ planInvocations = 0
    /\ planCompleted = [id \in MessageIds |-> 0]

StorageInit ==
    /\ profiles \in [{FiscalCode} -> {None} \cup {Some(p) : p \in StorageProfiles}]
    /\ messages = [k \in MessageKeys |-> Some(NewMessageWithoutContent(k[1]))]
    /\ blobs = [k \in MessageKeys |-> None]
    /\ written = {}
    /\ step = [p \in Procs |-> Idle]
    /\ input = [p \in Procs |-> None]
    /\ profile = [p \in Procs |-> None]
    /\ calls = [p \in Procs |-> <<>>]
    /\ invocations = 0
    /\ completed = [id \in MessageIds |-> 0]
    /\ PlanIdle
    /\ ReadIdle
    /\ offered = {}

\* the scheduler invokes the activity with an input (a first delivery or a
\* retry), in a slot whose previous invocation has ended
Invoke(p, i) ==
    /\ step[p].tag \in {"idle", "return", "throw"}
    /\ invocations < MaxInvocations
    /\ invocations' = invocations + 1
    /\ input' = [input EXCEPT ![p] = Some(i)]
    /\ profile' = [profile EXCEPT ![p] = None]
    /\ calls' = [calls EXCEPT ![p] = <<>>]
    /\ step' = [step EXCEPT ![p] = OnInput(i)]
    /\ UNCHANGED <<profiles, messages, blobs, written, completed, planVars, readVars>>

\* the profile query fails
FindProfileFails(p) ==
    /\ Awaiting(p, "findOneProfileByFiscalCode")
    /\ calls' = [calls EXCEPT ![p] = Append(@, Call("findOneProfileByFiscalCode", "error"))]
    /\ step' = [step EXCEPT ![p] = AfterFindProfile(EventOf(p), Left("query error"))]
    /\ UNCHANGED <<profiles, messages, blobs, written, input, profile, invocations,
                   completed, planVars, readVars>>

\* the profile query answers with the recipient's profile, if any
FindProfileAnswers(p) ==
    /\ Awaiting(p, "findOneProfileByFiscalCode")
    /\ LET answer == FindOneProfileByFiscalCode(profiles, EventOf(p).message.fiscalCode)
       IN  /\ calls' = [calls EXCEPT ![p] = Append(@, Call("findOneProfileByFiscalCode", "ok"))]
           /\ profile' = [profile EXCEPT ![p] = answer.value]
           /\ step' = [step EXCEPT ![p] = AfterFindProfile(EventOf(p), answer)]
    /\ UNCHANGED <<profiles, messages, blobs, written, input, invocations, completed, planVars, readVars>>

\* the content put fails
AttachFails(p) ==
    /\ Awaiting(p, "attachStoredContent")
    /\ calls' = [calls EXCEPT ![p] = Append(@, Call("attachStoredContent", "error"))]
    /\ step' = [step EXCEPT ![p] = AfterAttachStoredContent(Left("blob error"))]
    /\ UNCHANGED <<profiles, messages, blobs, written, input, profile, invocations,
                   completed, planVars, readVars>>

\* the content put succeeds
AttachSucceeds(p) ==
    /\ Awaiting(p, "attachStoredContent")
    /\ LET event == EventOf(p)
       IN  blobs' = AttachStoredContent(blobs, event.message.id,
                                        event.message.fiscalCode, event.content)
    /\ calls' = [calls EXCEPT ![p] = Append(@, Call("attachStoredContent", "ok"))]
    /\ step' = [step EXCEPT ![p] = AfterAttachStoredContent(Right(None))]
    /\ UNCHANGED <<profiles, messages, written, input, profile, invocations, completed, planVars, readVars>>

\* the pending-flag update fails
UpdateFails(p) ==
    /\ Awaiting(p, "createOrUpdate")
    /\ calls' = [calls EXCEPT ![p] = Append(@, Call("createOrUpdate", "error"))]
    /\ step' = [step EXCEPT ![p] =
                    AfterCreateOrUpdate(EventOf(p), profile[p][1], Left("query error"))]
    /\ UNCHANGED <<profiles, messages, blobs, written, input, profile, invocations,
                   completed, planVars, readVars>>

\* the pending-flag update succeeds
UpdateSucceeds(p) ==
    /\ Awaiting(p, "createOrUpdate")
    /\ LET event == EventOf(p)
           doc == VisibleMessage(event.message)
           next == AfterCreateOrUpdate(event, profile[p][1], Right(doc))
       IN  /\ messages' = CreateOrUpdate(messages, doc, event.message.fiscalCode)
           /\ written' = written \cup {doc}
           /\ step' = [step EXCEPT ![p] = next]
           /\ completed' = [completed EXCEPT ![event.message.id] =
                               IF next.tag = "return" /\ next.value.kind = "SUCCESS"
                               THEN @ + 1 ELSE @]
    /\ calls' = [calls EXCEPT ![p] = Append(@, Call("createOrUpdate", "ok"))]
    /\ UNCHANGED <<profiles, blobs, input, profile, invocations, planVars, readVars>>

Next ==
    \/ \E p \in Procs, i \in StorageInputs : Invoke(p, i)
    \/ \E p \in Procs : FindProfileFails(p)
    \/ \E p \in Procs : FindProfileAnswers(p)
    \/ \E p \in Procs : AttachFails(p)
    \/ \E p \in Procs : AttachSucceeds(p)
    \/ \E p \in Procs : UpdateFails(p)
    \/ \E p \in Procs : UpdateSucceeds(p)

Spec == StorageInit /\ [][Next]_vars

----------------------------------------------------------------------------
\* Properties of the storage stage

Errored(p) == \E i \in 1..Len(calls[p]) : calls[p][i].outcome = "error"

Made(p, c) == \E i \in 1..Len(calls[p]) : calls[p][i].call = c

Decodes(p) == IsSome(input[p]) /\ ~IsLeft(CreatedMessageEvent_decode(input[p][1]))

Returned(p, v) == step[p] = Return(v)

ReturnedSuccess(p) == step[p].tag = "return" /\ step[p].value.kind = "SUCCESS"

Key(id) == <<id, FiscalCode>>

IsPending(id) == messages[Key(id)][1].isPending

LookupOk == Call("findOneProfileByFiscalCode", "ok")

PutOk == Call("attachStoredContent", "ok")

UpdateOk == Call("createOrUpdate", "ok")

\* C1: an invocation ends raised exactly when one of its store calls (profile
\* lookup, content put, pending-flag update) failed, and then it returns no
\* result; every FAILURE it returns carries one of the four validation and
\* policy reasons and was returned without any failed store call.
C1_TwoChannels ==
    \A p \in Procs :
        /\ Errored(p) <=> step[p].tag = "throw"
        /\ Errored(p) => step[p].tag # "return"
        /\ (step[p].tag = "return" /\ step[p].value.kind = "FAILURE")
              => step[p].value.reason \in {"BAD_DATA", "PROFILE_NOT_FOUND",
                                           "MASTER_INBOX_DISABLED", "SENDER_BLOCKED"}

C1_Witness ==
    \E p, q \in Procs :
        /\ step[p].tag = "throw" /\ Made(p, "createOrUpdate")
        /\ Returned(q, Failure("SENDER_BLOCKED"))

\* C2: within an invocation the pending-flag update is only issued after the
\* content put of that invocation succeeded, and in every reachable state a
\* message whose pending flag is false has its content in the blob store.
C2_PutBeforeFlip ==
    /\ \A p \in Procs :
          (Made(p, "createOrUpdate") \/ Awaiting(p, "createOrUpdate"))
             => \E i \in 1..Len(calls[p]) :
                   /\ calls[p][i] = PutOk
                   /\ \A j \in 1..i : calls[p][j].call # "createOrUpdate"
    /\ \A id \in MessageIds :
          ~IsPending(id) => blobs[Key(id)] = Some(MessageContent(id))

C2_Witness ==
    \E id \in MessageIds : ~IsPending(id) /\ blobs[Key(id)] = Some(MessageContent(id))

\* C3: when the recipient has no profile record, an invocation whose lookup
\* answers returns FAILURE(PROFILE_NOT_FOUND), no invocation returns anything
\* else, and neither the content put nor the pending-flag update is ever
\* invoked: the blob store and the message collection stay as they were.
C3_ProfileNotFound ==
    IsNone(profiles[FiscalCode]) =>
        /\ \A p \in Procs :
              Decodes(p) =>
                 /\ step[p].tag = "return" => Returned(p, Failure("PROFILE_NOT_FOUND"))
                 /\ LookupOk \in Range(calls[p]) => Returned(p, Failure("PROFILE_NOT_FOUND"))
                 /\ ~Made(p, "attachStoredContent") /\ ~Made(p, "createOrUpdate")
                 /\ ~Awaiting(p, "attachStoredContent") /\ ~Awaiting(p, "createOrUpdate")
        /\ \A id \in MessageIds :
              /\ blobs[Key(id)] = None
              /\ messages[Key(id)] = Some(NewMessageWithoutContent(id))
        /\ written = {}

C3_Witness ==
    \E p \in Procs :
        /\ IsNone(profiles[FiscalCode])
        /\ Returned(p, Failure("PROFILE_NOT_FOUND"))
        /\ calls[p] = <<LookupOk>>

\* C4: when the lookup finds a profile whose isInboxEnabled is not true (false
\* or absent), the invocation returns FAILURE(MASTER_INBOX_DISABLED) whatever
\* the block list holds, having made no store call but the lookup.
C4_MasterInboxDisabled ==
    \A p \in Procs :
        (IsSome(profile[p]) /\ profile[p][1].isInboxEnabled # Some(TRUE))
           => /\ Returned(p, Failure("MASTER_INBOX_DISABLED"))
              /\ calls[p] = <<LookupOk>>

C4_Witness ==
    \E p \in Procs :
        /\ IsSome(profile[p])
        /\ profile[p][1].isInboxEnabled = None
        /\ IsSome(profile[p][1].blockedInboxOrChannels)
        /\ profile[p][1].blockedInboxOrChannels[1][EventOf(p).message.senderServiceId]
              = Some(<<"EMAIL", "INBOX">>)
        /\ Returned(p, Failure("MASTER_INBOX_DISABLED"))

\* the Set a found profile holds for the sender of the invocation's message
SenderEntry(p) ==
    LET bl == profile[p][1].blockedInboxOrChannels
        svc == EventOf(p).message.senderServiceId
    IN  IF IsSome(bl) /\ IsSome(bl[1][svc]) THEN bl[1][svc][1] ELSE <<>>

InboxBlocked(p) == IsSome(profile[p]) /\ "INBOX" \in Range(SenderEntry(p))

\* C5 as stated: whenever the found profile's block list entry for the sender
\* contains INBOX, the invocation returns FAILURE(SENDER_BLOCKED).
C5_Original ==
    \A p \in Procs : InboxBlocked(p) => Returned(p, Failure("SENDER_BLOCKED"))

\* C5 amended: whenever the found profile has isInboxEnabled true and its
\* block list entry for the sender contains INBOX, the invocation returns
\* FAILURE(SENDER_BLOCKED), having made no store call but the lookup.
C5_SenderBlocked ==
    \A p \in Procs :
        (InboxBlocked(p) /\ profile[p][1].isInboxEnabled = Some(TRUE))
           => /\ Returned(p, Failure("SENDER_BLOCKED"))
              /\ calls[p] = <<LookupOk>>

C5_Witness ==
    \E p \in Procs :
        /\ InboxBlocked(p)
        /\ profile[p][1].isInboxEnabled = Some(TRUE)
        /\ SenderEntry(p) = <<"WEBHOOK", "INBOX">>
        /\ Returned(p, Failure("SENDER_BLOCKED"))

\* C6: an invocation whose input does not decode as a message event returns
\* FAILURE(BAD_DATA) and makes no store call at all.
C6_BadData ==
    \A p \in Procs :
        (IsSome(input[p]) /\ IsLeft(CreatedMessageEvent_decode(input[p][1])))
           => /\ Returned(p, Failure("BAD_DATA"))
              /\ calls[p] = <<>>
              /\ profile[p] = None

C6_Witness ==
    \E p \in Procs :
        /\ IsSome(input[p])
        /\ IsNone(input[p][1].content)
        /\ Returned(p, Failure("BAD_DATA"))
        /\ invocations = MaxInvocations

\* C7: an invocation returns SUCCESS only after its lookup, its content put and
\* its pending-flag update all succeeded, in this order; the payload carries
\* the profile the lookup answered with and, as an array without repetition,
\* exactly the channels of the sender's block list entry (none without entry).
C7_Success ==
    \A p \in Procs :
        ReturnedSuccess(p) =>
           /\ calls[p] = <<LookupOk, PutOk, UpdateOk>>
           /\ IsSome(profile[p])
           /\ profile[p] = profiles[EventOf(p).message.fiscalCode]
           /\ step[p].value.profile = profile[p][1]
           /\ Range(step[p].value.blockedInboxOrChannels) = Range(SenderEntry(p))
           /\ Len(step[p].value.blockedInboxOrChannels) = Len(SenderEntry(p))
           /\ NoDup(step[p].value.blockedInboxOrChannels)

C7_Witness ==
    \E p, q \in Procs :
        /\ ReturnedSuccess(p)
        /\ step[p].value.blockedInboxOrChannels = <<"WEBHOOK", "EMAIL">>
        /\ ReturnedSuccess(q)
        /\ step[q].value.blockedInboxOrChannels = <<>>
        /\ IsSome(profile[q][1].blockedInboxOrChannels)
        /\ IsNone(profile[q][1].blockedInboxOrChannels[1][EventOf(q).message.senderServiceId])

\* the storage of a message after one content put and one pending-flag update
BlobAfterOnce(id) ==
    AttachStoredContent([k \in MessageKeys |-> None], id, FiscalCode,
                        MessageContent(id))[Key(id)]

DocAfterOnce(id) ==
    CreateOrUpdate([k \in MessageKeys |-> Some(NewMessageWithoutContent(k[1]))],
                   VisibleMessage(NewMessageWithoutContent(id)), FiscalCode)[Key(id)]

\* C8: however many times the content put and the pending-flag update have run
\* for a message, with the same id, recipient and content, the storage
\* of the message is what one run leaves: the content bytes and pending=false.
C8_Idempotent ==
    \A id \in MessageIds :
        completed[id] >= 1 =>
           /\ blobs[Key(id)] = BlobAfterOnce(id)
           /\ blobs[Key(id)] = Some(MessageContent(id))
           /\ messages[Key(id)] = DocAfterOnce(id)
           /\ ~IsPending(id)

C8_Witness ==
    \E id \in MessageIds :
        /\ completed[id] >= 2
        /\ blobs[Key(id)] = Some(MessageContent(id))
        /\ ~IsPending(id)

\* C9: every document the storage stage writes to the message collection has
\* pending=false, and no step of any interleaving of invocations turns the
\* pending flag of a message from false back to true.
C9_PendingMonotone ==
    /\ [](\A d \in written : d.isPending = FALSE)
    /\ [][\A id \in MessageIds : ~IsPending(id) => ~IsPending(id)']_vars

C9_Witness ==
    \E p, q \in Procs :
        /\ p # q
        /\ UpdateOk \in Range(calls[p])
        /\ UpdateOk \in Range(calls[q])
        /\ EventOf(p).message.id = EventOf(q).message.id
        /\ ~IsPending(EventOf(p).message.id)
        /\ written # {}

----------------------------------------------------------------------------
\* The planning stage: getCreateNotificationActivityHandler

DefaultWebhookUrl == "https://webhook.example/notify"

Versions == 1..MaxVersion

\* the profiles a storage stage result may carry to the planning stage
PlanProfiles ==
    [fiscalCode : {FiscalCode}, isInboxEnabled : {Some(TRUE)},
     isEmailEnabled : OptBool, isWebhookEnabled : OptBool,
     email : {None, Some("x@y.it")}, blockedInboxOrChannels : {None}]

\* an array holding the channels of a set, each once
ChannelArray(S) ==
    (IF "INBOX" \in S THEN <<"INBOX">> ELSE <<>>)
    \o (IF "EMAIL" \in S THEN <<"EMAIL">> ELSE <<>>)
    \o (IF "WEBHOOK" \in S THEN <<"WEBHOOK">> ELSE <<>>)

\* the SUCCESS results the planning stage may be handed: the storage stage
\* answers SENDER_BLOCKED, not SUCCESS, when INBOX is among the blocked channels
PlanPayloads ==
    {Success(ChannelArray(S), p) : S \in SUBSET (Channels \ {"INBOX"}), p \in PlanProfiles}

PlanInput(event, result) ==
    [createdMessageEvent |-> event, storeMessageContentActivityResult |-> result]

\* what the scheduler may pass for one message and its storage stage result:
\* the event of the message at any service version, an event that does not
\* decode, and a FAILURE result in place of the SUCCESS one
PlanInputsFor(id, secure, result) ==
    {PlanInput(CreatedMessageEvent(id, secure, v), result) : v \in Versions}
    \cup {PlanInput([CreatedMessageEvent(id, secure, 1) EXCEPT !.content = None], result)}
    \cup {PlanInput(CreatedMessageEvent(id, secure, 1), Failure("SENDER_BLOCKED"))}

\* RetrievedProfile.decode: isEmailEnabled is true when the profile does not
\* have it; the other optional fields stay absent
RetrievedProfile_decode(p) ==
    [p EXCEPT !.isEmailEnabled = IF IsNone(@) THEN Some(TRUE) ELSE @]

\* CreateNotificationActivityInput.decode: a message event and a SUCCESS result
CreateNotificationActivityInput_decode(i) ==
    IF IsLeft(CreatedMessageEvent_decode(i.createdMessageEvent))
       \/ i.storeMessageContentActivityResult.kind # "SUCCESS"
    THEN Left("validation errors")
    ELSE Right([createdMessageEvent |->
                    CreatedMessageEvent_decode(i.createdMessageEvent).value,
                storeMessageContentActivityResult |->
                    [i.storeMessageContentActivityResult EXCEPT
                        !.profile = RetrievedProfile_decode(@)]])

NoneResult == [kind |-> "none"]

SomeResult(hasEmail, hasWebhook, notificationEvent) ==
    [kind |-> "some", hasEmail |-> hasEmail, hasWebhook |-> hasWebhook,
     notificationEvent |-> notificationEvent]

\* getEmailAddressFromProfile
GetEmailAddressFromProfile(p) ==
    IF IsNone(p.email)
    THEN None
    ELSE Some([addressSource |-> "PROFILE_ADDRESS", toAddress |-> p.email[1]])

\* the email address to notify, if the email channel is to be used
MaybeEmailNotificationAddressIgnoringSecure(i) ==
    LET p == i.storeMessageContentActivityResult.profile
        blocked == i.storeMessageContentActivityResult.blockedInboxOrChannels
    IN  IF p.isEmailEnabled = Some(TRUE) /\ ~(IndexOf(blocked, "EMAIL") >= 0)
        THEN GetEmailAddressFromProfile(p)
        ELSE None

MaybeEmailNotificationAddress(i) ==
    LET p == i.storeMessageContentActivityResult.profile
        blocked == i.storeMessageContentActivityResult.blockedInboxOrChannels
        isEmailEnabledInProfile == p.isEmailEnabled = Some(TRUE)
        isEmailBlockedForService == IndexOf(blocked, "EMAIL") >= 0
        maybeEmailFromProfile == GetEmailAddressFromProfile(p)
        isEmailChannelAllowed == ~i.createdMessageEvent.senderMetadata.requireSecureChannels
    IN  IF isEmailEnabledInProfile /\ ~isEmailBlockedForService /\ isEmailChannelAllowed
        THEN maybeEmailFromProfile
        ELSE None

\* a webhook decision that the sender's secure-channel requirement vetoes too
MaybeWebhookNotificationUrlVetoedBySecure(i) ==
    LET p == i.storeMessageContentActivityResult.profile
        blocked == i.storeMessageContentActivityResult.blockedInboxOrChannels
    IN  IF p.isWebhookEnabled = Some(TRUE) /\ ~(IndexOf(blocked, "WEBHOOK") >= 0)
           /\ ~i.createdMessageEvent.senderMetadata.requireSecureChannels
        THEN Some([url |-> DefaultWebhookUrl])
        ELSE None

\* a webhook decision that only an explicit false turns off
MaybeWebhookNotificationUrlUnlessFalse(i) ==
    LET p == i.storeMessageContentActivityResult.profile
        blocked == i.storeMessageContentActivityResult.blockedInboxOrChannels
    IN  IF p.isWebhookEnabled # Some(FALSE) /\ ~(IndexOf(blocked, "WEBHOOK") >= 0)
        THEN Some([url |-> DefaultWebhookUrl])
        ELSE None

\* the webhook url to notify, if the webhook channel is to be used
MaybeWebhookNotificationUrl(i) ==
    LET p == i.storeMessageContentActivityResult.profile
        blocked == i.storeMessageContentActivityResult.blockedInboxOrChannels
        isWebhookEnabledInProfile == p.isWebhookEnabled = Some(TRUE)
        isWebhookBlockedForService == IndexOf(blocked, "WEBHOOK") >= 0
    IN  IF isWebhookEnabledInProfile /\ ~isWebhookBlockedForService
        THEN Some([url |-> DefaultWebhookUrl])
        ELSE None

\* newSenderService(fiscalCode, serviceId, version)
NewSenderService(fiscalCode, serviceId, version) ==
    [recipientFiscalCode |-> fiscalCode, serviceId |-> serviceId, version |-> version]

\* SenderServiceModel.createOrUpdate(document, partitionKey): upsert
CreateOrUpdateSenderService(ss, doc, partitionKey) ==
    [ss EXCEPT ![<<partitionKey, doc.serviceId>>] = Some(doc)]

\* a notification that takes the email address of the profile whenever it has one
NewNotificationWithProfileEmail(ulid, i) ==
    [id |-> ulid,
     fiscalCode |-> i.createdMessageEvent.message.fiscalCode,
     messageId |-> i.createdMessageEvent.message.id,
     channels |-> [EMAIL |-> GetEmailAddressFromProfile(
                                 i.storeMessageContentActivityResult.profile),
                   WEBHOOK |-> MaybeWebhookNotificationUrl(i)]]

\* the notification to track the channels: createNewNotification plus channels
NewNotification(ulid, i) ==
    [id |-> ulid,
     fiscalCode |-> i.createdMessageEvent.message.fiscalCode,
     messageId |-> i.createdMessageEvent.message.id,
     channels |-> [EMAIL |-> MaybeEmailNotificationAddress(i),
                   WEBHOOK |-> MaybeWebhookNotificationUrl(i)]]

\* a createNotification that partitions the records by recipient
NotificationPartitionKeyRecipient(doc) == doc.fiscalCode

\* the partition key createNotification passes: the message id of the
\* notification, a string like the fiscal code
NotificationPartitionKey(doc) == ToString(doc.messageId)

\* NotificationModel.create(document, partitionKey)
CreateNotificationDocument(ns, doc, partitionKey) ==
    ns \cup {[document |-> doc, partitionKey |-> partitionKey]}

\* a handler that raises on an input that does not decode
PlanOnInputThrowing(i) ==
    IF IsLeft(CreateNotificationActivityInput_decode(i))
    THEN Throw("Error decoding input")
    ELSE Await("senderService.createOrUpdate")

\* a handler that decides on the channels before recording the sender service
PlanOnInputDecidingFirst(i) ==
    IF IsLeft(CreateNotificationActivityInput_decode(i))
    THEN Return(NoneResult)
    ELSE IF IsNone(MaybeEmailNotificationAddress(CreateNotificationActivityInput_decode(i).value))
            /\ IsNone(MaybeWebhookNotificationUrl(CreateNotificationActivityInput_decode(i).value))
    THEN Return(NoneResult)
    ELSE Await("senderService.createOrUpdate")

\* decode the input, then record the sender service
PlanOnInput(i) ==
    IF IsLeft(CreateNotificationActivityInput_decode(i))
    THEN Return(NoneResult)
    ELSE Await("senderService.createOrUpdate")

\* a handler that builds the notification without looking at the channels
AfterSenderServiceAlwaysNotifying(i, errorOrSenderService) ==
    IF IsLeft(errorOrSenderService)
    THEN Throw("Cannot save sender service id")
    ELSE Await("notification.create")

\* the sender-service upsert has answered or failed
AfterSenderService(i, errorOrSenderService) ==
    IF IsLeft(errorOrSenderService)
    THEN Throw("Cannot save sender service id")
    ELSE IF IsNone(MaybeEmailNotificationAddress(i)) /\ IsNone(MaybeWebhookNotificationUrl(i))
    THEN Return(NoneResult)
    ELSE Await("notification.create")

\* a createNotification that raises once the record has been created
AfterCreateNotificationThrowingAfter(i, errorOrNotification) ==
    Throw("Cannot save notification to database")

\* a createNotification that answers "none" when the create fails
AfterCreateNotificationSwallowing(i, errorOrNotification) ==
    IF IsLeft(errorOrNotification)
    THEN Return(NoneResult)
    ELSE Return(SomeResult(IsSome(MaybeEmailNotificationAddress(i)),
                           IsSome(MaybeWebhookNotificationUrl(i)),
                           [content |-> i.createdMessageEvent.content,
                            message |-> i.createdMessageEvent.message,
                            notificationId |-> errorOrNotification.value.id,
                            senderMetadata |-> i.createdMessageEvent.senderMetadata]))

\* createNotification: the notification create has answered or failed
AfterCreateNotification(i, errorOrNotification) ==
    IF IsLeft(errorOrNotification)
    THEN Throw("Cannot save notification to database")
    ELSE Return(SomeResult(IsSome(MaybeEmailNotificationAddress(i)),
                           IsSome(MaybeWebhookNotificationUrl(i)),
                           [content |-> i.createdMessageEvent.content,
                            message |-> i.createdMessageEvent.message,
                            notificationId |-> errorOrNotification.value.id,
                            senderMetadata |-> i.createdMessageEvent.senderMetadata]))

PlanCall(name, outcome) == [call |-> name, outcome |-> outcome]

\* the decoded input of the planning stage invocation in slot p
PlanInputOf(p) == CreateNotificationActivityInput_decode(planInput[p][1]).value

PlanAwaiting(p, c) == planStep[p].tag = "await" /\ planStep[p].call = c

\* the messages the planning stage is run for: one of each sender service
PlanMessageIds == {CHOOSE id \in MessageIds : SenderOf(id) = s : s \in Services}

----------------------------------------------------------------------------
\* The planning stage as a state machine

PlanInit ==
    /\ profiles = [f \in {FiscalCode} |-> None]
    /\ messages = [k \in MessageKeys |-> Some(NewMessageWithoutContent(k[1]))]
    /\ blobs = [k \in MessageKeys |-> None]
    /\ written = {}
    /\ step = [p \in Procs |-> Idle]
    /\ input = [p \in Procs |-> None]
    /\ profile = [p \in Procs |-> None]
    /\ calls = [p \in Procs |-> <<>>]
    /\ invocations = 0
    /\ completed = [id \in MessageIds |-> 0]
    /\ PlanIdle
    /\ ReadIdle
    /\ \E id \in PlanMessageIds, secure \in BOOLEAN, result \in PlanPayloads :
          offered = PlanInputsFor(id, secure, result)

\* the scheduler invokes the planning stage with one of the inputs it holds
PlanInvoke(p, i) ==
    /\ planStep[p].tag \in {"idle", "return", "throw"}
    /\ planInvocations < MaxPlanInvocations
    /\ i \in offered
    /\ planInvocations' = planInvocations + 1
    /\ planInput' = [planInput EXCEPT ![p] = Some(i)]
    /\ newNotification' = [newNotification EXCEPT ![p] = None]
    /\ planCalls' = [planCalls EXCEPT ![p] = <<>>]
    /\ planStep' = [planStep EXCEPT ![p] = PlanOnInput(i)]
    /\ UNCHANGED <<offered, senderServices, notifications, ulids, planCompleted, storageVars, readVars>>

\* the sender-service upsert fails
SenderServiceFails(p) ==
    /\ PlanAwaiting(p, "senderService.createOrUpdate")
    /\ planCalls' = [planCalls EXCEPT ![p] =
                        Append(@, PlanCall("senderService.createOrUpdate", "error"))]
    /\ planStep' = [planStep EXCEPT ![p] =
                        AfterSenderService(PlanInputOf(p), Left("query error"))]
    /\ UNCHANGED <<offered, senderServices, notifications, ulids, planInput,
                   newNotification, planInvocations, planCompleted, storageVars, readVars>>

\* the sender-service upsert succeeds; the handler goes on to decide whether a
\* notification is needed and, if so, builds it with a fresh id
SenderServiceSucceeds(p) ==
    /\ PlanAwaiting(p, "senderService.createOrUpdate")
    /\ LET i == PlanInputOf(p)
           m == i.createdMessageEvent.message
           doc == NewSenderService(m.fiscalCode, m.senderServiceId,
                                   i.createdMessageEvent.serviceVersion)
           next == AfterSenderService(i, Right(doc))
       IN  /\ senderServices' = CreateOrUpdateSenderService(senderServices, doc, m.fiscalCode)
           /\ planStep' = [planStep EXCEPT ![p] = next]
           /\ IF next.tag = "await"
              THEN /\ ulids' = ulids + 1
                   /\ newNotification' = [newNotification EXCEPT ![p] =
                                             Some(NewNotification(ulids + 1, i))]
              ELSE UNCHANGED <<ulids, newNotification>>
    /\ planCalls' = [planCalls EXCEPT ![p] =
                        Append(@, PlanCall("senderService.createOrUpdate", "ok"))]
    /\ UNCHANGED <<offered, notifications, planInput, planInvocations, planCompleted, storageVars, readVars>>

\* the notification create fails
NotificationCreateFails(p) ==
    /\ PlanAwaiting(p, "notification.create")
    /\ planCalls' = [planCalls EXCEPT ![p] =
                        Append(@, PlanCall("notification.create", "error"))]
    /\ planStep' = [planStep EXCEPT ![p] =
                        AfterCreateNotification(PlanInputOf(p), Left("query error"))]
    /\ UNCHANGED <<offered, senderServices, notifications, ulids, planInput,
                   newNotification, planInvocations, planCompleted, storageVars, readVars>>

\* the notification create succeeds
NotificationCreateSucceeds(p) ==
    /\ PlanAwaiting(p, "notification.create")
    /\ LET doc == newNotification[p][1]
           next == AfterCreateNotification(PlanInputOf(p), Right(doc))
       IN  /\ notifications' = CreateNotificationDocument(notifications, doc,
                                                          NotificationPartitionKey(doc))
           /\ planStep' = [planStep EXCEPT ![p] = next]
           /\ planCompleted' = [planCompleted EXCEPT ![doc.messageId] =
                                   IF next.tag = "return" /\ next.value.kind = "some"
                                   THEN @ + 1 ELSE @]
    /\ planCalls' = [planCalls EXCEPT ![p] =
                        Append(@, PlanCall("notification.create", "ok"))]
    /\ UNCHANGED <<offered, senderServices, ulids, planInput, newNotification,
                   planInvocations, storageVars, readVars>>

PlanNext ==
    \/ \E p \in Procs, i \in offered : PlanInvoke(p, i)
    \/ \E p \in Procs : SenderServiceFails(p)
    \/ \E p \in Procs : SenderServiceSucceeds(p)
    \/ \E p \in Procs : NotificationCreateFails(p)
    \/ \E p \in Procs : NotificationCreateSucceeds(p)

SpecPlan == PlanInit /\ [][PlanNext]_vars

----------------------------------------------------------------------------
\* Properties of the planning stage

PlanDecodes(p) ==
    IsSome(planInput[p]) /\ ~IsLeft(CreateNotificationActivityInput_decode(planInput[p][1]))

PlanReturned(p, kind) == planStep[p].tag = "return" /\ planStep[p].value.kind = kind

\* the four conditions of email eligibility, on a decoded input
EmailEligible(i) ==
    /\ i.storeMessageContentActivityResult.profile.isEmailEnabled = Some(TRUE)
    /\ "EMAIL" \notin Range(i.storeMessageContentActivityResult.blockedInboxOrChannels)
    /\ ~i.createdMessageEvent.senderMetadata.requireSecureChannels
    /\ IsSome(i.storeMessageContentActivityResult.profile.email)

\* C10: for every decoded input, hasEmail (in a SOME result, and as the EMAIL
\* channel of the notification built) is true exactly when isEmailEnabled is
\* true in the profile, EMAIL is not in the blocked channels, the sender does
\* not require secure channels and the profile has an email address; a NONE
\* result is only given when email is not eligible; so with
\* requireSecureChannels=true there is never an email.
C10_HasEmail ==
    \A p \in Procs :
        PlanDecodes(p) =>
           /\ PlanReturned(p, "some")
                 => (planStep[p].value.hasEmail <=> EmailEligible(PlanInputOf(p)))
           /\ PlanReturned(p, "none") => ~EmailEligible(PlanInputOf(p))
           /\ IsSome(newNotification[p])
                 => (IsSome(newNotification[p][1].channels.EMAIL)
                        <=> EmailEligible(PlanInputOf(p)))
           /\ (PlanReturned(p, "some")
               /\ PlanInputOf(p).createdMessageEvent.senderMetadata.requireSecureChannels)
                 => ~planStep[p].value.hasEmail

C10_Witness ==
    \E p \in Procs :
        /\ PlanReturned(p, "some")
        /\ PlanInputOf(p).createdMessageEvent.senderMetadata.requireSecureChannels
        /\ PlanInputOf(p).storeMessageContentActivityResult.profile.isEmailEnabled = Some(TRUE)
        /\ IsSome(PlanInputOf(p).storeMessageContentActivityResult.profile.email)
        /\ PlanInputOf(p).storeMessageContentActivityResult.blockedInboxOrChannels = <<>>
        /\ ~planStep[p].value.hasEmail

\* the two conditions of webhook eligibility, on a decoded input
WebhookEligible(i) ==
    /\ i.storeMessageContentActivityResult.profile.isWebhookEnabled = Some(TRUE)
    /\ "WEBHOOK" \notin Range(i.storeMessageContentActivityResult.blockedInboxOrChannels)

\* C11: for every decoded input, hasWebhook (in a SOME result, and as the
\* WEBHOOK channel of the notification built) is true exactly when
\* isWebhookEnabled is true in the profile and WEBHOOK is not in the blocked
\* channels, whatever requireSecureChannels and the profile's email are; a
\* NONE result is only given when the webhook is not eligible; the WEBHOOK
\* channel of a notification, when present, is the default webhook url.
C11_Webhook ==
    \A p \in Procs :
        PlanDecodes(p) =>
           /\ PlanReturned(p, "some")
                 => (planStep[p].value.hasWebhook <=> WebhookEligible(PlanInputOf(p)))
           /\ PlanReturned(p, "none") => ~WebhookEligible(PlanInputOf(p))
           /\ IsSome(newNotification[p])
                 => newNotification[p][1].channels.WEBHOOK
                       = IF WebhookEligible(PlanInputOf(p))
                         THEN Some([url |-> DefaultWebhookUrl])
                         ELSE None

C11_Witness ==
    \E p \in Procs :
        /\ PlanReturned(p, "some")
        /\ PlanInputOf(p).createdMessageEvent.senderMetadata.requireSecureChannels
        /\ IsNone(PlanInputOf(p).storeMessageContentActivityResult.profile.email)
        /\ planStep[p].value.hasWebhook
        /\ \E n \in notifications :
              /\ n.document.id = planStep[p].value.notificationEvent.notificationId
              /\ n.document.channels.WEBHOOK = Some([url |-> DefaultWebhookUrl])

\* how many times invocation p has called the store operation named name
PlanCallCount(p, name) ==
    Cardinality({k \in 1..Len(planCalls[p]) : planCalls[p][k].call = name})

PlanFinished(p) == planStep[p].tag \in {"return", "throw"}

AnyChannelEligible(i) == EmailEligible(i) \/ WebhookEligible(i)

\* C12: a decoded input is answered NONE exactly when neither email nor
\* webhook is eligible, and then the invocation has not called
\* notification create; an invocation with an eligible channel that got past
\* the sender-service upsert and finished has called create exactly once, a
\* SOME result follows one successful create, and no invocation calls create
\* twice; so no stored notification has both channels absent.
C12_NoneIffNoChannel ==
    /\ \A p \in Procs :
          PlanDecodes(p) =>
             /\ planStep[p].tag = "return"
                   => (PlanReturned(p, "none") <=> ~AnyChannelEligible(PlanInputOf(p)))
             /\ PlanReturned(p, "none") => PlanCallCount(p, "notification.create") = 0
             /\ PlanReturned(p, "some")
                   => /\ PlanCallCount(p, "notification.create") = 1
                      /\ planCalls[p][Len(planCalls[p])] = PlanCall("notification.create", "ok")
             /\ (PlanFinished(p) /\ AnyChannelEligible(PlanInputOf(p))
                  /\ PlanCall("senderService.createOrUpdate", "ok") \in Range(planCalls[p]))
                   => PlanCallCount(p, "notification.create") = 1
             /\ PlanCallCount(p, "notification.create") <= 1
    /\ \A n \in notifications :
          IsSome(n.document.channels.EMAIL) \/ IsSome(n.document.channels.WEBHOOK)

C12_Witness ==
    \E p \in Procs :
        /\ PlanDecodes(p)
        /\ PlanReturned(p, "none")
        /\ planCalls[p] = <<PlanCall("senderService.createOrUpdate", "ok")>>
        /\ IsSome(PlanInputOf(p).storeMessageContentActivityResult.profile.email)
        /\ PlanInputOf(p).storeMessageContentActivityResult.profile.isEmailEnabled = Some(TRUE)
        /\ PlanInputOf(p).createdMessageEvent.senderMetadata.requireSecureChannels
        /\ notifications = {}

\* the key of the sender-service record that invocation p is to write
SenderServiceKey(p) ==
    <<PlanInputOf(p).createdMessageEvent.message.fiscalCode,
      PlanInputOf(p).createdMessageEvent.message.senderServiceId>>

\* C13: an invocation with a decoded input calls the sender-service upsert
\* first and never twice; once it has finished it has called it exactly once;
\* a NONE result for a decoded input comes after one successful upsert and no
\* other call, so the sender-service record exists then; the notification
\* create is only awaited after a successful upsert.
C13_UpsertOnceFirst ==
    \A p \in Procs :
        PlanDecodes(p) =>
           /\ planCalls[p] # <<>> => planCalls[p][1].call = "senderService.createOrUpdate"
           /\ PlanCallCount(p, "senderService.createOrUpdate") <= 1
           /\ PlanFinished(p) => PlanCallCount(p, "senderService.createOrUpdate") = 1
           /\ PlanReturned(p, "none")
                 => /\ planCalls[p] = <<PlanCall("senderService.createOrUpdate", "ok")>>
                    /\ IsSome(senderServices[SenderServiceKey(p)])
           /\ PlanAwaiting(p, "notification.create")
                 => planCalls[p] = <<PlanCall("senderService.createOrUpdate", "ok")>>

C13_Witness ==
    \E p \in Procs :
        /\ PlanDecodes(p)
        /\ PlanInputOf(p).storeMessageContentActivityResult.profile.isEmailEnabled = Some(FALSE)
        /\ PlanInputOf(p).storeMessageContentActivityResult.profile.isWebhookEnabled = Some(FALSE)
        /\ PlanReturned(p, "none")
        /\ planCalls[p] = <<PlanCall("senderService.createOrUpdate", "ok")>>
        /\ IsSome(senderServices[SenderServiceKey(p)])
        /\ notifications = {}

\* a store call of invocation p has failed
PlanErrored(p) == \E k \in 1..Len(planCalls[p]) : planCalls[p][k].outcome = "error"

\* C14: an invocation one of whose store calls failed has raised (it has not
\* returned NONE or SOME), with the message of the call that failed, and
\* nothing else makes an invocation raise; an invocation whose sender-service
\* upsert failed has made no other call and has built no notification.
C14_InfraRaised ==
    \A p \in Procs :
        /\ PlanErrored(p) <=> planStep[p].tag = "throw"
        /\ PlanCall("senderService.createOrUpdate", "error") \in Range(planCalls[p])
              => /\ planStep[p] = Throw("Cannot save sender service id")
                 /\ planCalls[p] = <<PlanCall("senderService.createOrUpdate", "error")>>
                 /\ PlanCallCount(p, "notification.create") = 0
                 /\ IsNone(newNotification[p])
        /\ PlanCall("notification.create", "error") \in Range(planCalls[p])
              => /\ planStep[p] = Throw("Cannot save notification to database")
                 /\ \A n \in notifications : n.document.id # newNotification[p][1].id

C14_Witness ==
    \E p, q \in Procs :
        /\ planStep[p] = Throw("Cannot save sender service id")
        /\ planCalls[p] = <<PlanCall("senderService.createOrUpdate", "error")>>
        /\ planStep[q] = Throw("Cannot save notification to database")
        /\ planCalls[q] = <<PlanCall("senderService.createOrUpdate", "ok"),
                            PlanCall("notification.create", "error")>>

\* C15: an invocation whose input does not decode as a message event with a
\* SUCCESS result of the storage stage (a FAILURE result included) has
\* returned NONE, has not raised, has called no store operation and has built
\* no notification.
C15_UndecodableNone ==
    \A p \in Procs :
        (IsSome(planInput[p]) /\ ~PlanDecodes(p))
           => /\ planStep[p] = Return(NoneResult)
              /\ planCalls[p] = <<>>
              /\ IsNone(newNotification[p])

C15_Witness ==
    \E p, q \in Procs :
        /\ IsSome(planInput[p])
        /\ planInput[p][1].storeMessageContentActivityResult.kind = "FAILURE"
        /\ planStep[p] = Return(NoneResult)
        /\ IsSome(planInput[q])
        /\ IsLeft(CreatedMessageEvent_decode(planInput[q][1].createdMessageEvent))
        /\ planStep[q] = Return(NoneResult)
        /\ notifications = {}
        /\ \A k \in DOMAIN senderServices : IsNone(senderServices[k])

\* invocation p has had its sender-service upsert accepted
Upserted(p) ==
    PlanDecodes(p) /\ PlanCall("senderService.createOrUpdate", "ok") \in Range(planCalls[p])

\* C16: the stored sender-service record is monotone in version: its version
\* is the maximum of the versions submitted for its (recipient, service), so
\* it is at least the version of every invocation whose upsert was accepted
\* and equal to the version of one of them, in whatever order they came.
C16_MaxVersion ==
    \A p \in Procs :
        Upserted(p) =>
           /\ IsSome(senderServices[SenderServiceKey(p)])
           /\ senderServices[SenderServiceKey(p)][1].version
                 >= PlanInputOf(p).createdMessageEvent.serviceVersion
           /\ \E q \in Procs :
                 /\ Upserted(q)
                 /\ SenderServiceKey(q) = SenderServiceKey(p)
                 /\ senderServices[SenderServiceKey(p)][1].version
                       = PlanInputOf(q).createdMessageEvent.serviceVersion

\* a higher version then a lower one leave the lower one stored
C16_Witness ==
    \E p, q \in Procs :
        /\ Upserted(p) /\ Upserted(q)
        /\ PlanFinished(p) /\ PlanFinished(q)
        /\ SenderServiceKey(p) = SenderServiceKey(q)
        /\ PlanInputOf(p).createdMessageEvent.serviceVersion = MaxVersion
        /\ PlanInputOf(q).createdMessageEvent.serviceVersion = 1
        /\ senderServices[SenderServiceKey(p)][1].version = 1

\* the notification records stored for message id
NotificationsOf(id) == {n \in notifications : n.document.messageId = id}

\* C17: re-invoking the planning stage with the same input converges to the
\* store state of one successful invocation: when two invocations with the
\* same input have both returned SOME, the notification store holds one
\* record for the message, the one both results name.
C17_PlanIdempotent ==
    \A p, q \in Procs :
        (p # q /\ PlanReturned(p, "some") /\ PlanReturned(q, "some")
         /\ planInput[p] = planInput[q])
           => /\ Cardinality(NotificationsOf(PlanInputOf(p).createdMessageEvent.message.id)) = 1
              /\ planStep[p].value.notificationEvent.notificationId
                    = planStep[q].value.notificationEvent.notificationId

\* two invocations with the same input have left two records
C17_Witness ==
    \E p, q \in Procs :
        /\ p # q
        /\ PlanReturned(p, "some") /\ PlanReturned(q, "some")
        /\ planInput[p] = planInput[q]
        /\ Cardinality(NotificationsOf(PlanInputOf(p).createdMessageEvent.message.id)) = 2
        /\ \A n, m \in notifications : (n # m) => n.document.channels = m.document.channels

----------------------------------------------------------------------------
\* Concurrent invocations of the storage stage

\* invocation p works on message id
WorksOn(p, id) == Decodes(p) /\ EventOf(p).message.id = id

\* an invocation for message id is waiting for a store call
InFlightFor(id) == \E p \in Procs : WorksOn(p, id) /\ step[p].tag = "await"

\* C18: whatever the interleaving of the invocations for one message event,
\* each of which may fail at any store call and be invoked again, once one of
\* them has returned SUCCESS and none is still waiting for a store call the
\* message is as one successful invocation leaves it: its content is the
\* event's content and its document is the event's message with
\* pending=false; meanwhile an invocation whose put was accepted sees the
\* event's content stored whatever the others have put.
C18_ConcurrentConverge ==
    \A id \in MessageIds :
        /\ (completed[id] >= 1 /\ ~InFlightFor(id))
              => /\ blobs[Key(id)] = Some(MessageContent(id))
                 /\ messages[Key(id)] = Some(VisibleMessage(NewMessageWithoutContent(id)))
                 /\ \A d \in written :
                       d.id = id => d = VisibleMessage(NewMessageWithoutContent(id))
        /\ \A p \in Procs :
              (WorksOn(p, id) /\ PutOk \in Range(calls[p]))
                 => blobs[Key(id)] = Some(MessageContent(id))

C18_Witness ==
    \E id \in MessageIds : \E p, q \in Procs :
        /\ p # q
        /\ WorksOn(p, id) /\ WorksOn(q, id)
        /\ ReturnedSuccess(p)
        /\ step[q].tag = "throw"
        /\ calls[q] = <<LookupOk, PutOk, Call("createOrUpdate", "error")>>
        /\ completed[id] = 1
        /\ invocations = MaxInvocations
        /\ blobs[Key(id)] = Some(MessageContent(id))
        /\ ~IsPending(id)

----------------------------------------------------------------------------
\* The partition of the notification records

----------------------------------------------------------------------------
\* The defaults of the channel flags

\* the profile of the input of invocation p as the scheduler passed it
GivenProfile(p) == planInput[p][1].storeMessageContentActivityResult.profile

\* email is eligible but for the isEmailEnabled flag
EmailEligibleButForFlag(i) ==
    /\ "EMAIL" \notin Range(i.storeMessageContentActivityResult.blockedInboxOrChannels)
    /\ ~i.createdMessageEvent.senderMetadata.requireSecureChannels
    /\ IsSome(i.storeMessageContentActivityResult.profile.email)

\* C20: a profile given without isEmailEnabled is treated as email-enabled
\* (email is eligible exactly when an address is present, EMAIL is not blocked
\* and secure channels are not required); a profile given without
\* isWebhookEnabled is treated as webhook-disabled (no webhook in the result
\* nor in the notification); and a profile with isEmailEnabled true, an
\* email, no blocked channel and no isWebhookEnabled, with
\* requireSecureChannels false, is answered SOME with hasEmail true and
\* hasWebhook false.
C20_FlagDefaults ==
    \A p \in Procs :
        PlanDecodes(p) =>
           /\ IsNone(GivenProfile(p).isEmailEnabled)
                 => /\ PlanReturned(p, "some")
                         => (planStep[p].value.hasEmail
                                <=> EmailEligibleButForFlag(PlanInputOf(p)))
                    /\ PlanReturned(p, "none") => ~EmailEligibleButForFlag(PlanInputOf(p))
           /\ IsNone(GivenProfile(p).isWebhookEnabled)
                 => /\ PlanReturned(p, "some") => ~planStep[p].value.hasWebhook
                    /\ IsSome(newNotification[p])
                         => IsNone(newNotification[p][1].channels.WEBHOOK)
           /\ (/\ planStep[p].tag = "return"
               /\ GivenProfile(p).isEmailEnabled = Some(TRUE)
               /\ IsSome(GivenProfile(p).email)
               /\ planInput[p][1].storeMessageContentActivityResult.blockedInboxOrChannels = <<>>
               /\ IsNone(GivenProfile(p).isWebhookEnabled)
               /\ ~PlanInputOf(p).createdMessageEvent.senderMetadata.requireSecureChannels)
                 => /\ PlanReturned(p, "some")
                    /\ planStep[p].value.hasEmail
                    /\ ~planStep[p].value.hasWebhook

C20_Witness ==
    \E p \in Procs :
        /\ PlanDecodes(p)
        /\ IsNone(GivenProfile(p).isEmailEnabled)
        /\ IsNone(GivenProfile(p).isWebhookEnabled)
        /\ PlanReturned(p, "some")
        /\ planStep[p].value.hasEmail
        /\ ~planStep[p].value.hasWebhook

----------------------------------------------------------------------------
\* Failed attempts of the storage stage

\* C21: an invocation of the storage stage that ends by raising has not
\* changed the message collection: no step in which an invocation raises
\* changes a message document, and an invocation that has raised has had no
\* pending-flag update accepted; the pending flag of a message stays true
\* until an invocation for it has returned SUCCESS, so content that only
\* failed attempts have put is under a message that is still pending.
C21_NoPartialEffect ==
    /\ [](\A p \in Procs :
            step[p].tag = "throw" => UpdateOk \notin Range(calls[p]))
    /\ [](\A id \in MessageIds : completed[id] = 0 => IsPending(id))
    /\ [][\A p \in Procs :
            (step[p].tag # "throw" /\ step'[p].tag = "throw") => messages' = messages]_vars

C21_Witness ==
    \E id \in MessageIds : \E p \in Procs :
        /\ WorksOn(p, id)
        /\ step[p] = Throw("Error while updating message pending status")
        /\ calls[p] = <<LookupOk, PutOk, Call("createOrUpdate", "error")>>
        /\ blobs[Key(id)] = Some(MessageContent(id))
        /\ completed[id] = 0
        /\ IsPending(id)

----------------------------------------------------------------------------
\* The pipeline: the scheduler runs the storage stage for a message event and
\* then the planning stage with the event and the result the storage stage
\* returned

\* the scheduler takes the result of the storage stage invocation in slot p as
\* an input for the planning stage
HandOver(p) ==
    /\ step[p].tag = "return"
    /\ PlanInput(input[p][1], step[p].value) \notin offered
    /\ offered' = offered \cup {PlanInput(input[p][1], step[p].value)}
    /\ UNCHANGED <<senderServices, notifications, ulids, planStep, planInput,
                   newNotification, planCalls, planInvocations, planCompleted, storageVars, readVars>>

\* the scheduler starts MaxInvocations activity invocations in one run of the
\* pipeline, storage stage and planning stage invocations together
PipelineBudget == invocations + planInvocations < MaxInvocations

\* a store call of a storage stage invocation answers or fails
StorageAnswer(p) ==
    \/ FindProfileFails(p)
    \/ FindProfileAnswers(p)
    \/ AttachFails(p)
    \/ AttachSucceeds(p)
    \/ UpdateFails(p)
    \/ UpdateSucceeds(p)

\* a store call of a planning stage invocation answers or fails
PlanAnswer(p) ==
    \/ SenderServiceFails(p)
    \/ SenderServiceSucceeds(p)
    \/ NotificationCreateFails(p)
    \/ NotificationCreateSucceeds(p)

PipelineNext ==
    \/ \E p \in Procs, i \in StorageInputs : PipelineBudget /\ Invoke(p, i)
    \/ \E p \in Procs : StorageAnswer(p)
    \/ \E p \in Procs : HandOver(p)
    \/ \E p \in Procs, i \in offered : PipelineBudget /\ PlanInvoke(p, i)
    \/ \E p \in Procs : PlanAnswer(p)

\* the block lists of the recipients of the pipeline: none, or one for the
\* first service that blocks two notification channels or the inbox
PipelineBlockLists ==
    {None,
     Some([svc \in Services |->
              IF svc = "svcA" THEN Some(<<"WEBHOOK", "EMAIL">>) ELSE None]),
     Some([svc \in Services |->
              IF svc = "svcA" THEN Some(<<"EMAIL", "INBOX">>) ELSE None])}

\* the profiles the storage stage may find in the pipeline
PipelineProfiles ==
    [fiscalCode : {FiscalCode}, isInboxEnabled : {Some(TRUE)},
     isEmailEnabled : {Some(TRUE)}, isWebhookEnabled : {None, Some(TRUE)},
     email : {Some("x@y.it")}, blockedInboxOrChannels : PipelineBlockLists]

PipelineInit ==
    /\ profiles \in [{FiscalCode} -> {None} \cup {Some(p) : p \in PipelineProfiles}]
    /\ messages = [k \in MessageKeys |-> Some(NewMessageWithoutContent(k[1]))]
    /\ blobs = [k \in MessageKeys |-> None]
    /\ written = {}
    /\ step = [p \in Procs |-> Idle]
    /\ input = [p \in Procs |-> None]
    /\ profile = [p \in Procs |-> None]
    /\ calls = [p \in Procs |-> <<>>]
    /\ invocations = 0
    /\ completed = [id \in MessageIds |-> 0]
    /\ PlanIdle
    /\ ReadIdle
    /\ offered = {}

SpecPipeline == PipelineInit /\ [][PipelineNext]_vars

\* the content of message id is stored and the message is visible
Stored(id) == blobs[Key(id)] = Some(MessageContent(id)) /\ ~IsPending(id)

\* C22: in the pipeline a notification record or a sender-service record is
\* only written for a message for which a storage stage invocation has
\* returned SUCCESS: every planning stage invocation that has called a store
\* works on such a message, every notification record is for such a message,
\* and every sender-service record is for the sender of such a message; the
\* content of such a message is stored and its pending flag is false.
C22_StorageBeforePlanning ==
    /\ \A p \in Procs :
          planCalls[p] # <<>>
             => /\ completed[PlanInputOf(p).createdMessageEvent.message.id] >= 1
                /\ Stored(PlanInputOf(p).createdMessageEvent.message.id)
    /\ \A n \in notifications :
          completed[n.document.messageId] >= 1 /\ Stored(n.document.messageId)
    /\ \A svc \in Services :
          IsSome(senderServices[<<FiscalCode, svc>>])
             => \E id \in MessageIds :
                   SenderOf(id) = svc /\ completed[id] >= 1 /\ Stored(id)

C22_Witness ==
    \E p \in Procs : \E n \in notifications :
        /\ PlanReturned(p, "some")
        /\ n.document.id = planStep[p].value.notificationEvent.notificationId
        /\ completed[n.document.messageId] >= 1
        /\ Stored(n.document.messageId)
        /\ IsSome(senderServices[<<FiscalCode, SenderOf(n.document.messageId)>>])
        /\ \E i \in offered : i.storeMessageContentActivityResult.kind = "FAILURE"

----------------------------------------------------------------------------
\* Retries of the planning stage after failures

\* C23: an invocation of the planning stage that raises adds no notification
\* record: the records of a message are as many as the invocations that
\* returned SOME for it; so when every invocation for a message but one has
\* raised, at the sender-service upsert or at the notification create, and
\* that one has returned SOME, there is exactly one notification record for
\* the message, the one the result names, and one sender-service record for
\* the recipient and the sender.
C23_NoDoubleEffect ==
    /\ \A id \in MessageIds : Cardinality(NotificationsOf(id)) = planCompleted[id]
    /\ \A p \in Procs :
          (PlanReturned(p, "some")
           /\ planCompleted[PlanInputOf(p).createdMessageEvent.message.id] = 1)
             => /\ NotificationsOf(PlanInputOf(p).createdMessageEvent.message.id)
                     = {n \in notifications :
                           n.document.id = planStep[p].value.notificationEvent.notificationId}
                /\ Cardinality(NotificationsOf(
                                  PlanInputOf(p).createdMessageEvent.message.id)) = 1
                /\ IsSome(senderServices[SenderServiceKey(p)])
                /\ \A k \in DOMAIN senderServices :
                      k # SenderServiceKey(p) => IsNone(senderServices[k])

C23_Witness ==
    \E p, q \in Procs :
        /\ planStep[p] = Throw("Cannot save notification to database")
        /\ planCalls[p] = <<PlanCall("senderService.createOrUpdate", "ok"),
                            PlanCall("notification.create", "error")>>
        /\ PlanReturned(q, "some")
        /\ planInput[p] = planInput[q]
        /\ planCompleted[PlanInputOf(q).createdMessageEvent.message.id] = 1
        /\ Cardinality(notifications) = 1
        /\ ulids = 2
        /\ IsSome(senderServices[SenderServiceKey(q)])

----------------------------------------------------------------------------
\* The storage stage under a scheduler that retries

\* the scheduler starts an invocation in slot p with input i
StartInvocation(p, i) ==
    /\ invocations' = invocations + 1
    /\ input' = [input EXCEPT ![p] = Some(i)]
    /\ profile' = [profile EXCEPT ![p] = None]
    /\ calls' = [calls EXCEPT ![p] = <<>>]
    /\ step' = [step EXCEPT ![p] = OnInput(i)]
    /\ UNCHANGED <<profiles, messages, blobs, written, completed, planVars, readVars>>

\* the first delivery of an input
Deliver(p, i) == step[p].tag = "idle" /\ StartInvocation(p, i)

\* the scheduler invokes the activity again, with the same input, after the
\* invocation has raised
Retry(p) == step[p].tag = "throw" /\ StartInvocation(p, input[p][1])

\* the stores fail only while fewer than MaxInvocations invocations have been
\* started: afterwards every store call is answered
StoresMayFail == invocations < MaxInvocations

\* what can happen next to the invocation in slot p
RetryStep(p) ==
    \/ \E i \in StorageInputs : Deliver(p, i)
    \/ Retry(p)
    \/ StoresMayFail /\ FindProfileFails(p)
    \/ FindProfileAnswers(p)
    \/ StoresMayFail /\ AttachFails(p)
    \/ AttachSucceeds(p)
    \/ StoresMayFail /\ UpdateFails(p)
    \/ UpdateSucceeds(p)

RetryNext == \E p \in Procs : RetryStep(p)

\* every started store call ends, and the scheduler does deliver and retry
SpecRetry ==
    StorageInit /\ [][RetryNext]_vars /\ \A p \in Procs : WF_vars(RetryStep(p))

\* the recipient has a profile with the inbox enabled that does not block
\* INBOX for the sender of message id
GateOpen(id) ==
    /\ IsSome(profiles[FiscalCode])
    /\ IsInboxEnabled(profiles[FiscalCode][1])
    /\ ~SetHas(BlockedInboxOrChannels(profiles[FiscalCode][1], SenderOf(id)), "INBOX")

\* C24: when the scheduler invokes the storage stage again after every raised
\* error and the stores stop failing, eventually and from then on every input
\* delivered has a returned result (SUCCESS or FAILURE), and a message event
\* whose recipient has a profile with the inbox enabled and INBOX not blocked
\* for the sender has got SUCCESS, its content stored and pending=false.
C24_EventuallyDone ==
    <>[](\A p \in Procs :
            /\ step[p].tag = "return"
            /\ step[p].value.kind \in {"SUCCESS", "FAILURE"}
            /\ \A id \in MessageIds :
                  (WorksOn(p, id) /\ GateOpen(id)) => (ReturnedSuccess(p) /\ Stored(id)))

C24_Witness ==
    \E p \in Procs : \E id \in MessageIds :
        /\ WorksOn(p, id)
        /\ GateOpen(id)
        /\ invocations > MaxInvocations
        /\ ReturnedSuccess(p)
        /\ Stored(id)
        /\ completed[id] = 1

----------------------------------------------------------------------------
\* The SOME result and the notification record

\* the notification records with the id that the SOME result of invocation p names
RecordsNamedBy(p) ==
    {n \in notifications :
        n.document.id = planStep[p].value.notificationEvent.notificationId}

\* C25: whenever the planning stage returns SOME, hasEmail or hasWebhook is
\* true; the result names one stored notification record, of the message and
\* recipient of the input, whose EMAIL channel is set exactly when hasEmail
\* is true, and then to the email address of the profile, and whose WEBHOOK
\* channel is set exactly when hasWebhook is true; and the notification event
\* of the result carries the id of that record with the content, the message
\* and the sender metadata of the input event.
C25_SomeMatchesRecord ==
    \A p \in Procs :
        PlanReturned(p, "some") =>
           /\ planStep[p].value.hasEmail \/ planStep[p].value.hasWebhook
           /\ Cardinality(RecordsNamedBy(p)) = 1
           /\ \A n \in RecordsNamedBy(p) :
                 /\ n.document.messageId = PlanInputOf(p).createdMessageEvent.message.id
                 /\ n.document.fiscalCode = PlanInputOf(p).createdMessageEvent.message.fiscalCode
                 /\ planStep[p].value.hasEmail <=> IsSome(n.document.channels.EMAIL)
                 /\ planStep[p].value.hasEmail
                       => n.document.channels.EMAIL[1].toAddress
                             = PlanInputOf(p).storeMessageContentActivityResult.profile.email[1]
                 /\ planStep[p].value.hasWebhook <=> IsSome(n.document.channels.WEBHOOK)
           /\ planStep[p].value.notificationEvent
                 = [content |-> PlanInputOf(p).createdMessageEvent.content,
                    message |-> PlanInputOf(p).createdMessageEvent.message,
                    notificationId |-> newNotification[p][1].id,
                    senderMetadata |-> PlanInputOf(p).createdMessageEvent.senderMetadata]

C25_Witness ==
    \E p \in Procs : \E n \in notifications :
        /\ PlanReturned(p, "some")
        /\ planStep[p].value.hasEmail
        /\ ~planStep[p].value.hasWebhook
        /\ n.document.id = planStep[p].value.notificationEvent.notificationId
        /\ n.document.channels.EMAIL
              = Some([addressSource |-> "PROFILE_ADDRESS", toAddress |-> "x@y.it"])
        /\ IsNone(n.document.channels.WEBHOOK)
        /\ planStep[p].value.notificationEvent.content
              = MessageContent(n.document.messageId)

----------------------------------------------------------------------------
\* The failure reasons and the blocked channels of the storage stage

\* the reasons the handler writes into a FAILURE result
ProducedReasons ==
    {"BAD_DATA", "PROFILE_NOT_FOUND", "MASTER_INBOX_DISABLED", "SENDER_BLOCKED"}

\* C26: the storage stage never returns FAILURE with reason PERMANENT_ERROR:
\* every FAILURE it returns has one of the four other reasons, and an
\* invocation in which a store call failed has raised an error, not returned.
C26_NoPermanentError ==
    \A p \in Procs :
        /\ (step[p].tag = "return" /\ step[p].value.kind = "FAILURE")
              => /\ step[p].value.reason # "PERMANENT_ERROR"
                 /\ step[p].value.reason \in ProducedReasons
        /\ (step[p].tag = "return" /\ Errored(p)) => FALSE

C26_Witness ==
    \E p, q \in Procs :
        /\ step[p] = Throw("Error while updating message pending status")
        /\ Errored(p)
        /\ step[q].tag = "return"
        /\ step[q].value = Failure("SENDER_BLOCKED")

\* C27: the blocked channels of every SUCCESS result of the storage stage
\* contain no INBOX and no duplicates, so that no input handed over to the
\* planning stage with a SUCCESS result, and no input a planning invocation
\* works on, has INBOX among its blocked channels.
C27_InboxNeverBlockedOnSuccess ==
    /\ \A p \in Procs :
          ReturnedSuccess(p) =>
             /\ ~SetHas(step[p].value.blockedInboxOrChannels, "INBOX")
             /\ NoDup(step[p].value.blockedInboxOrChannels)
    /\ \A i \in offered :
          i.storeMessageContentActivityResult.kind = "SUCCESS" =>
             /\ ~SetHas(i.storeMessageContentActivityResult.blockedInboxOrChannels, "INBOX")
             /\ NoDup(i.storeMessageContentActivityResult.blockedInboxOrChannels)
    /\ \A p \in Procs :
          (planCalls[p] # <<>> \/ planStep[p].tag = "await") =>
             ~SetHas(PlanInputOf(p).storeMessageContentActivityResult.blockedInboxOrChannels,
                     "INBOX")

C27_Witness ==
    \E p, r \in Procs :
        /\ ReturnedSuccess(p)
        /\ step[p].value.blockedInboxOrChannels = <<"WEBHOOK", "EMAIL">>
        /\ PlanInput(input[p][1], step[p].value) \in offered
        /\ planInput[r] = Some(PlanInput(input[p][1], step[p].value))
        /\ planStep[r].tag = "return"

----------------------------------------------------------------------------
\* MessageStatusUpdaterActivity and GetMessage

\* requests and status updater invocations the model starts
MaxRequests == 2

\* the messages the read side is asked about: one of each sender
ReadMessageIds == {CHOOSE id \in MessageIds : SenderOf(id) = s : s \in Services}

\* values of MessageStatusValue
MessageStatusValues == {"ACCEPTED", "FAILED", "PROCESSED"}

\* Input.decode of the status updater: messageId and status are required,
\* and status is a MessageStatusValue
Input_decode(i) ==
    IF IsSome(i.messageId) /\ IsSome(i.status) /\ i.status[1] \in MessageStatusValues
    THEN Right([messageId |-> i.messageId[1], status |-> i.status[1]])
    ELSE Left("validation errors")

\* the inputs the status updater is invoked with: well-formed ones, one
\* without a message id and one with a status that is no MessageStatusValue
UpdaterInputs ==
    [messageId : {Some(id) : id \in ReadMessageIds}, status : {Some("FAILED"), Some("PROCESSED")}]
       \cup {[messageId |-> None, status |-> Some("PROCESSED")],
             [messageId |-> Some(1), status |-> Some("DELIVERED")]}

\* the status updater up to its store call
GetMessageStatusUpdaterActivityHandler(i) ==
    IF IsLeft(Input_decode(i))
    THEN Return([kind |-> "FAILURE"])
    ELSE Await("messageStatusUpdater")

\* a status updater that reports a store failure as a failure result
AfterMessageStatusUpdaterSwallowing(result) ==
    IF IsLeft(result)
    THEN Return([kind |-> "FAILURE"])
    ELSE Return([kind |-> "SUCCESS"])

\* the status updater after its store call
AfterMessageStatusUpdater(result) ==
    IF IsLeft(result)
    THEN Throw(result.value)
    ELSE Return([kind |-> "SUCCESS"])

\* getMessageStatusUpdater(messageStatusModel, messageId)(status), when the
\* store accepts the update
MessageStatusUpdater(statuses, messageId, status) ==
    [statuses EXCEPT ![messageId] = Some([messageId |-> messageId, status |-> status])]

\* the responses of GetMessage
ResponseErrorQuery == [kind |-> "IResponseErrorQuery", detail |-> "Error while retrieving the message"]

ResponseErrorNotFound == [kind |-> "IResponseErrorNotFound", detail |-> "Message not found"]

ResponseErrorForbiddenNotAuthorized == [kind |-> "IResponseErrorForbiddenNotAuthorized"]

ResponseErrorInternal(detail) == [kind |-> "IResponseErrorInternal", detail |-> detail]

ResponseSuccessJson(v) == [kind |-> "IResponseSuccessJson", value |-> v]

\* the request of a service for a message of a recipient
GetRequest(serviceId, messageId) ==
    [userAttributes |-> [service |-> [serviceId |-> serviceId]],
     fiscalCode |-> FiscalCode, messageId |-> messageId]

GetRequests == {GetRequest(s, id) : s \in Services, id \in ReadMessageIds}

\* MessageModel.findMessageForRecipient, when the query answers
FindMessageForRecipient(ms, fiscalCode, messageId) == Right(ms[<<messageId, fiscalCode>>])

\* MessageModel.getStoredContent, when the blob store answers
GetStoredContent(bs, messageId, fiscalCode) == Right(bs[<<messageId, fiscalCode>>])

\* MessageStatusModel.findOneByMessageId, when the query answers
FindOneByMessageId(statuses, messageId) == Right(statuses[messageId])

\* what getMessageNotificationStatuses may answer with
NotificationStatusAnswers == {None, Some([email |-> "SENT"])}

\* retrievedMessageToPublic: the public fields of a stored message
RetrievedMessageToPublic(m) ==
    [fiscal_code |-> m.fiscalCode, id |-> m.id, sender_service_id |-> m.senderServiceId]

\* the handler up to its first lookup
GetMessageHandler(request) == Await("findMessageForRecipient")

\* a message lookup step that lets every service read the message
AfterFindMessageForRecipientAllowingAll(request, errorOrMaybeDocument) ==
    IF IsLeft(errorOrMaybeDocument)
    THEN Return(ResponseErrorQuery)
    ELSE IF IsNone(errorOrMaybeDocument.value)
    THEN Return(ResponseErrorNotFound)
    ELSE Await("getStoredContent")

\* the handler after the message lookup
AfterFindMessageForRecipient(request, errorOrMaybeDocument) ==
    IF IsLeft(errorOrMaybeDocument)
    THEN Return(ResponseErrorQuery)
    ELSE IF IsNone(errorOrMaybeDocument.value)
    THEN Return(ResponseErrorNotFound)
    ELSE IF errorOrMaybeDocument.value[1].senderServiceId
               # request.userAttributes.service.serviceId
    THEN Return(ResponseErrorForbiddenNotAuthorized)
    ELSE Await("getStoredContent")

\* the handler after the content lookup
AfterGetStoredContent(errorOrMaybeContent) ==
    IF IsLeft(errorOrMaybeContent)
    THEN Return(ResponseErrorInternal("Error retrieving content"))
    ELSE Await("getMessageNotificationStatuses")

\* the handler after the notification status lookup
AfterGetMessageNotificationStatuses(errorOrNotificationStatuses) ==
    IF IsLeft(errorOrNotificationStatuses)
    THEN Return(ResponseErrorInternal("Error retrieving NotificationStatus"))
    ELSE Await("findOneByMessageId")

\* the message of the response: the content with the public fields
PublicMessage(locals) ==
    [content |-> locals.content] @@ RetrievedMessageToPublic(locals.retrievedMessage[1])

\* a status lookup step that reports every message as accepted
AfterFindOneByMessageIdAlwaysAccepted(locals, errorOrMaybeMessageStatus) ==
    IF IsLeft(errorOrMaybeMessageStatus)
    THEN Return(ResponseErrorInternal("Error retrieving MessageStatus"))
    ELSE Return(ResponseSuccessJson(
                   [message |-> PublicMessage(locals),
                    notification |-> locals.notification,
                    status |-> "ACCEPTED"]))

\* the handler after the message status lookup
AfterFindOneByMessageId(locals, errorOrMaybeMessageStatus) ==
    IF IsLeft(errorOrMaybeMessageStatus)
    THEN Return(ResponseErrorInternal("Error retrieving MessageStatus"))
    ELSE Return(ResponseSuccessJson(
                   [message |-> PublicMessage(locals),
                    notification |-> locals.notification,
                    status |-> IF IsSome(errorOrMaybeMessageStatus.value)
                               THEN errorOrMaybeMessageStatus.value[1].status
                               ELSE "ACCEPTED"]))

\* the model starts requests and status updates while it has budget
ReadBudget == getInvocations + updInvocations < MaxRequests

UpdAwaiting(p) == updStep[p].tag = "await" /\ updStep[p].call = "messageStatusUpdater"

GetAwaiting(p, c) == getStep[p].tag = "await" /\ getStep[p].call = c

\* the decoded input of the status updater invocation in slot p
UpdInputOf(p) == Input_decode(updInput[p][1]).value

\* the scheduler invokes the status updater (a first delivery or a retry)
UpdInvoke(p, i) ==
    /\ updStep[p].tag \in {"idle", "return", "throw"}
    /\ ReadBudget
    /\ updInvocations' = updInvocations + 1
    /\ updInput' = [updInput EXCEPT ![p] = Some(i)]
    /\ updCalls' = [updCalls EXCEPT ![p] = <<>>]
    /\ updStep' = [updStep EXCEPT ![p] = GetMessageStatusUpdaterActivityHandler(i)]
    /\ UNCHANGED <<messageStatuses, getStep, getRequest, getLocals, getCalls,
                   getInvocations, storageVars, planVars>>

\* the status update fails
StatusUpdateFails(p) ==
    /\ UpdAwaiting(p)
    /\ updCalls' = [updCalls EXCEPT ![p] = Append(@, Call("messageStatusUpdater", "error"))]
    /\ updStep' = [updStep EXCEPT ![p] = AfterMessageStatusUpdater(Left("query error"))]
    /\ UNCHANGED <<messageStatuses, updInput, updInvocations, getStep, getRequest,
                   getLocals, getCalls, getInvocations, storageVars, planVars>>

\* the status update succeeds
StatusUpdateSucceeds(p) ==
    /\ UpdAwaiting(p)
    /\ messageStatuses' = MessageStatusUpdater(messageStatuses, UpdInputOf(p).messageId,
                                               UpdInputOf(p).status)
    /\ updCalls' = [updCalls EXCEPT ![p] = Append(@, Call("messageStatusUpdater", "ok"))]
    /\ updStep' = [updStep EXCEPT ![p] =
                      AfterMessageStatusUpdater(Right(messageStatuses'[UpdInputOf(p).messageId]))]
    /\ UNCHANGED <<updInput, updInvocations, getStep, getRequest, getLocals, getCalls,
                   getInvocations, storageVars, planVars>>

\* a service requests a message
GetInvoke(p, r) ==
    /\ getStep[p].tag \in {"idle", "return"}
    /\ ReadBudget
    /\ getInvocations' = getInvocations + 1
    /\ getRequest' = [getRequest EXCEPT ![p] = Some(r)]
    /\ getLocals' = [getLocals EXCEPT ![p] = NoLocals]
    /\ getCalls' = [getCalls EXCEPT ![p] = <<>>]
    /\ getStep' = [getStep EXCEPT ![p] = GetMessageHandler(r)]
    /\ UNCHANGED <<messageStatuses, updStep, updInput, updCalls, updInvocations,
                   storageVars, planVars>>

\* a lookup of GetMessage ends: the call is recorded, the locals and the
\* position of the handler move on
GetAnswered(p, call, outcome, locals, next) ==
    /\ getCalls' = [getCalls EXCEPT ![p] = Append(@, Call(call, outcome))]
    /\ getLocals' = [getLocals EXCEPT ![p] = locals]
    /\ getStep' = [getStep EXCEPT ![p] = next]
    /\ UNCHANGED <<messageStatuses, getRequest, getInvocations, updStep, updInput,
                   updCalls, updInvocations, storageVars, planVars>>

\* the message query fails
FindMessageFails(p) ==
    /\ GetAwaiting(p, "findMessageForRecipient")
    /\ GetAnswered(p, "findMessageForRecipient", "error", getLocals[p],
                   AfterFindMessageForRecipient(getRequest[p][1], Left("query error")))

\* the message query answers with the message, if any
FindMessageAnswers(p) ==
    /\ GetAwaiting(p, "findMessageForRecipient")
    /\ LET answer == FindMessageForRecipient(messages, getRequest[p][1].fiscalCode,
                                             getRequest[p][1].messageId)
       IN  GetAnswered(p, "findMessageForRecipient", "ok",
                       [getLocals[p] EXCEPT !.retrievedMessage = answer.value],
                       AfterFindMessageForRecipient(getRequest[p][1], answer))

\* the content lookup fails
GetStoredContentFails(p) ==
    /\ GetAwaiting(p, "getStoredContent")
    /\ GetAnswered(p, "getStoredContent", "error", getLocals[p],
                   AfterGetStoredContent(Left("blob error")))

\* the content lookup answers with the content, if any
GetStoredContentAnswers(p) ==
    /\ GetAwaiting(p, "getStoredContent")
    /\ LET m == getLocals[p].retrievedMessage[1]
           answer == GetStoredContent(blobs, m.id, m.fiscalCode)
       IN  GetAnswered(p, "getStoredContent", "ok",
                       [getLocals[p] EXCEPT !.content = answer.value],
                       AfterGetStoredContent(answer))

\* the notification status lookup fails
NotificationStatusesFails(p) ==
    /\ GetAwaiting(p, "getMessageNotificationStatuses")
    /\ GetAnswered(p, "getMessageNotificationStatuses", "error", getLocals[p],
                   AfterGetMessageNotificationStatuses(Left("query error")))

\* the notification status lookup answers
NotificationStatusesAnswers(p, a) ==
    /\ GetAwaiting(p, "getMessageNotificationStatuses")
    /\ GetAnswered(p, "getMessageNotificationStatuses", "ok",
                   [getLocals[p] EXCEPT !.notification = a],
                   AfterGetMessageNotificationStatuses(Right(a)))

\* the message status lookup fails
FindMessageStatusFails(p) ==
    /\ GetAwaiting(p, "findOneByMessageId")
    /\ GetAnswered(p, "findOneByMessageId", "error", getLocals[p],
                   AfterFindOneByMessageId(getLocals[p], Left("query error")))

\* the message status lookup answers with the status document, if any
FindMessageStatusAnswers(p) ==
    /\ GetAwaiting(p, "findOneByMessageId")
    /\ GetAnswered(p, "findOneByMessageId", "ok", getLocals[p],
                   AfterFindOneByMessageId(
                       getLocals[p],
                       FindOneByMessageId(messageStatuses,
                                          getLocals[p].retrievedMessage[1].id)))

ReadNext ==
    \/ \E p \in Procs, i \in UpdaterInputs : UpdInvoke(p, i)
    \/ \E p \in Procs : StatusUpdateFails(p)
    \/ \E p \in Procs : StatusUpdateSucceeds(p)
    \/ \E p \in Procs, r \in GetRequests : GetInvoke(p, r)
    \/ \E p \in Procs : FindMessageFails(p)
    \/ \E p \in Procs : FindMessageAnswers(p)
    \/ \E p \in Procs : GetStoredContentFails(p)
    \/ \E p \in Procs : GetStoredContentAnswers(p)
    \/ \E p \in Procs : NotificationStatusesFails(p)
    \/ \E p \in Procs, a \in NotificationStatusAnswers : NotificationStatusesAnswers(p, a)
    \/ \E p \in Procs : FindMessageStatusFails(p)
    \/ \E p \in Procs : FindMessageStatusAnswers(p)

\* the message collection and the blob store as the read side may find them:
\* any of the messages it is asked about exists, with its content stored or not
ReadInit ==
    /\ profiles = [f \in {FiscalCode} |-> None]
    /\ \E present \in SUBSET ReadMessageIds : \E stored \in SUBSET present :
          /\ messages = [k \in MessageKeys |->
                            IF k[1] \in present
                            THEN Some(VisibleMessage(NewMessageWithoutContent(k[1])))
                            ELSE None]
          /\ blobs = [k \in MessageKeys |->
                         IF k[1] \in stored THEN Some(MessageContent(k[1])) ELSE None]
    /\ written = {}
    /\ step = [p \in Procs |-> Idle]
    /\ input = [p \in Procs |-> None]
    /\ profile = [p \in Procs |-> None]
    /\ calls = [p \in Procs |-> <<>>]
    /\ invocations = 0
    /\ completed = [id \in MessageIds |-> 0]
    /\ PlanIdle
    /\ ReadIdle
    /\ offered = {}

SpecRead == ReadInit /\ [][ReadNext]_vars

----------------------------------------------------------------------------
\* Properties of GetMessage and MessageStatusUpdaterActivity

GetReturned(p, kind) == getStep[p].tag = "return" /\ getStep[p].value.kind = kind

\* the lookups of GetMessage in the order of the handler
LookupOrder ==
    <<"findMessageForRecipient", "getStoredContent", "getMessageNotificationStatuses",
      "findOneByMessageId">>

\* the stored message the request in slot p asks for, if any
RequestedMessage(p) == messages[<<getRequest[p][1].messageId, getRequest[p][1].fiscalCode>>]

\* the requesting service of slot p is the sender of the stored message
RequesterIsSender(p) ==
    /\ IsSome(RequestedMessage(p))
    /\ RequestedMessage(p)[1].senderServiceId
          = getRequest[p][1].userAttributes.service.serviceId

\* C28: GetMessageHandler makes its lookups in a fixed order and stops at
\* the first failure: a failed message query gives an error-query response, a
\* missing message not-found, a requester other than the sender forbidden, and
\* in these three cases the message query is the only lookup made; a lookup
\* that failed is the last one made and no success follows it; a success
\* response is returned only when the requester is the sender and the four
\* lookups have all succeeded.
C28_ChecksInOrder ==
    \A p \in Procs :
        getCalls[p] # <<>> =>
           /\ Len(getCalls[p]) <= Len(LookupOrder)
           /\ \A i \in 1..Len(getCalls[p]) :
                 /\ getCalls[p][i].call = LookupOrder[i]
                 /\ getCalls[p][i].outcome = "error"
                       => /\ i = Len(getCalls[p])
                          /\ getStep[p].tag = "return"
                          /\ getStep[p].value.kind
                                = IF i = 1 THEN "IResponseErrorQuery"
                                  ELSE "IResponseErrorInternal"
           /\ (getCalls[p][1].outcome = "ok" /\ IsNone(RequestedMessage(p)))
                 => /\ getStep[p] = Return(ResponseErrorNotFound)
                    /\ Len(getCalls[p]) = 1
           /\ (getCalls[p][1].outcome = "ok" /\ IsSome(RequestedMessage(p))
                  /\ ~RequesterIsSender(p))
                 => /\ getStep[p] = Return(ResponseErrorForbiddenNotAuthorized)
                    /\ Len(getCalls[p]) = 1
           /\ GetReturned(p, "IResponseErrorQuery")
                 => getCalls[p] = <<Call("findMessageForRecipient", "error")>>
           /\ GetReturned(p, "IResponseErrorNotFound")
                 => /\ getCalls[p] = <<Call("findMessageForRecipient", "ok")>>
                    /\ IsNone(RequestedMessage(p))
           /\ GetReturned(p, "IResponseErrorForbiddenNotAuthorized")
                 => /\ getCalls[p] = <<Call("findMessageForRecipient", "ok")>>
                    /\ IsSome(RequestedMessage(p))
                    /\ ~RequesterIsSender(p)
           /\ GetReturned(p, "IResponseSuccessJson")
                 => /\ RequesterIsSender(p)
                    /\ getCalls[p] = [i \in 1..Len(LookupOrder) |-> Call(LookupOrder[i], "ok")]

C28_Witness ==
    \E p, q \in Procs :
        /\ GetReturned(p, "IResponseErrorForbiddenNotAuthorized")
        /\ getCalls[p] = <<Call("findMessageForRecipient", "ok")>>
        /\ IsSome(RequestedMessage(p))
        /\ GetReturned(q, "IResponseSuccessJson")
        /\ Len(getCalls[q]) = 4
        /\ RequesterIsSender(q)
        /\ getRequest[p][1].messageId = getRequest[q][1].messageId

\* the status GetMessage reports for a message given the status collection
ReportedStatus(id) ==
    IF IsSome(messageStatuses[id]) THEN messageStatuses[id][1].status ELSE "ACCEPTED"

\* C29: the status of a success response of GetMessageHandler is the status
\* of the stored MessageStatus document of the message at the time of the
\* status lookup when there is one, and ACCEPTED when there is none; so while
\* a message has no status document every success response for it says
\* ACCEPTED.
C29_StatusOrAccepted ==
    /\ [][\A p \in Procs :
             (GetAwaiting(p, "findOneByMessageId") /\ GetReturned(p, "IResponseSuccessJson")')
                => getStep'[p].value.value.status = ReportedStatus(getRequest[p][1].messageId)]_vars
    /\ [](\A p \in Procs :
             GetReturned(p, "IResponseSuccessJson") =>
                /\ getStep[p].value.value.message.id = getRequest[p][1].messageId
                /\ IsNone(messageStatuses[getRequest[p][1].messageId])
                      => getStep[p].value.value.status = "ACCEPTED")

C29_Witness ==
    \E p \in Procs :
        /\ GetReturned(p, "IResponseSuccessJson")
        /\ getStep[p].value.value.status = "PROCESSED"
        /\ messageStatuses[getRequest[p][1].messageId]
              = Some([messageId |-> getRequest[p][1].messageId, status |-> "PROCESSED"])
        /\ \E id \in MessageIds : IsNone(messageStatuses[id])

\* C30: MessageStatusUpdaterActivity returns {kind: FAILURE} exactly for the
\* inputs that do not decode, and then without a call to the status store; an
\* invocation whose status update failed has raised an error, not returned;
\* {kind: SUCCESS} is returned only by an invocation whose status update
\* succeeded, in the step that writes the status of the input to the store.
C30_StopOrRetry ==
    /\ [](\A p \in Procs :
             IsSome(updInput[p]) =>
                /\ IsLeft(Input_decode(updInput[p][1]))
                      => (updStep[p] = Return([kind |-> "FAILURE"]) /\ updCalls[p] = <<>>)
                /\ updStep[p].tag = "return"
                      => updStep[p].value \in {[kind |-> "FAILURE"], [kind |-> "SUCCESS"]}
                /\ updStep[p] = Return([kind |-> "FAILURE"])
                      => (IsLeft(Input_decode(updInput[p][1])) /\ updCalls[p] = <<>>)
                /\ (\E i \in 1..Len(updCalls[p]) : updCalls[p][i].outcome = "error")
                      => updStep[p].tag = "throw"
                /\ updStep[p] = Return([kind |-> "SUCCESS"])
                      => /\ updCalls[p] = <<Call("messageStatusUpdater", "ok")>>
                         /\ IsSome(messageStatuses[UpdInputOf(p).messageId]))
    /\ [][\A p \in Procs :
             (UpdAwaiting(p) /\ updStep'[p] = Return([kind |-> "SUCCESS"]))
                => messageStatuses'[UpdInputOf(p).messageId] = Some(UpdInputOf(p))]_vars
    /\ [][messageStatuses' # messageStatuses
             => \E p \in Procs :
                   UpdAwaiting(p) /\ updStep'[p] = Return([kind |-> "SUCCESS"])]_vars

C30_Witness ==
    \E p, q \in Procs :
        /\ IsSome(updInput[p])
        /\ IsLeft(Input_decode(updInput[p][1]))
        /\ updStep[p] = Return([kind |-> "FAILURE"])
        /\ updCalls[p] = <<>>
        /\ updStep[q] = Throw("query error")
        /\ updCalls[q] = <<Call("messageStatusUpdater", "error")>>
        /\ \A id \in MessageIds : IsNone(messageStatuses[id])

====
